---------------------------- MODULE Spec2Model ----------------------------
(***************************************************************************)
(* LLM Council (src/council.py, src/providers, src/utils): the             *)
(* deliberation orchestrator LLMCouncil, its three operations consult,     *)
(* sequential_refine and summarize, the provider classes they call and     *)
(* the response cache behind BaseLLMProvider.query.                        *)
(*                                                                         *)
(* Text is modelled character by character: a Python str is a sequence of  *)
(* one-character strings, and split, replace, strip and `in` are computed  *)
(* on it as Python computes them.  A prompt (an f-string around a fixed    *)
(* template) is a record of its template and of the values formatted into  *)
(* it.  A dict is a function on its keys.                                  *)
(*                                                                         *)
(* Every provider call is two steps, as in asyncio: the step that issues   *)
(* it runs with the code before the await, the step that completes it runs *)
(* with the code after the await up to the next await.                     *)
(*                                                                         *)
(* Beside the orchestrator, four components are explored on their own,     *)
(* each under a specification of its own: the response scorer of the vote  *)
(* mode, direct provider queries through the cache, a SimpleCache of a     *)
(* small capacity, and a ConversationMemory.                               *)
(***************************************************************************)
EXTENDS Naturals, Sequences, FiniteSets

---------------------------------------------------------------------------
(* Bounds of the model.                                                    *)

\* Longest provider list explored.
MaxProviders == 2

\* Most pieces (markers and filler texts) a refiner's output is made of.
MaxPieces == 4

\* Calls on one orchestrator.
MaxCalls == 2

\* Longest provider list explored in the runs of several calls.
MaxProvidersReliable == 3

\* Most providers whose responses are scored against each other.
MaxVoters == 3

\* Provider queries made one after the other.
MaxQueries == 3

\* Largest capacity (max_size) of the SimpleCache instances explored.
MaxCapacity == 2

\* Largest limit (max_history) of the ConversationMemory instances explored,
\* and most messages added to one.
MaxHistory == 2

MaxMessages == 4

\* The largest token budget get_context is called with.
MaxTokens == 3

---------------------------------------------------------------------------
(* Program constants.                                                      *)

\* council.py:7 and council.py:8
API_TIMEOUT == 60
OLLAMA_TIMEOUT == 120

\* utils/cache.py:8 (the global instance of cache.py:39 keeps the default)
max_size == 1000

---------------------------------------------------------------------------
(* Python str operations on character sequences.                           *)

Min(S) == CHOOSE x \in S : \A y \in S : x <= y
Max(S) == CHOOSE x \in S : \A y \in S : x >= y

\* sub occurs in s at position i
OccursAt(s, sub, i) ==
    /\ i + Len(sub) - 1 <= Len(s)
    /\ \A k \in 1..Len(sub) : s[i + k - 1] = sub[k]

\* str.find, 1-based; 0 when sub does not occur
Find(s, sub) ==
    LET at == {i \in 1..Len(s) : OccursAt(s, sub, i)}
    IN  IF at = {} THEN 0 ELSE Min(at)

\* `sub in s`
Contains(s, sub) == Find(s, sub) # 0

\* str.split(sep): the pieces between the non-overlapping occurrences of sep,
\* found left to right
RECURSIVE Split(_, _)
Split(s, sep) ==
    LET i == Find(s, sep)
    IN  IF i = 0 THEN <<s>>
        ELSE <<SubSeq(s, 1, i - 1)>> \o Split(SubSeq(s, i + Len(sep), Len(s)), sep)

\* str.replace(old, new): every non-overlapping occurrence, left to right
RECURSIVE Replace(_, _, _)
Replace(s, old, new) ==
    LET i == Find(s, old)
    IN  IF i = 0 THEN s
        ELSE SubSeq(s, 1, i - 1) \o new
             \o Replace(SubSeq(s, i + Len(old), Len(s)), old, new)

Whitespace == {" ", "\n", "\t", "\r"}

\* str.strip()
Strip(s) ==
    LET keep == {i \in 1..Len(s) : s[i] \notin Whitespace}
    IN  IF keep = {} THEN <<>> ELSE SubSeq(s, Min(keep), Max(keep))

\* str(n) of a non-negative int, as the f-strings format the timeouts
DigitChars == <<"0", "1", "2", "3", "4", "5", "6", "7", "8", "9">>
RECURSIVE IntToStr(_)
IntToStr(n) ==
    IF n < 10 THEN <<DigitChars[n + 1]>>
    ELSE IntToStr(n \div 10) \o <<DigitChars[(n % 10) + 1]>>

---------------------------------------------------------------------------
(* String literals of the source.                                           *)

\* council.py:243, 245
ANALYSIS_MARKER ==
    <<"A","N","A","L","Y","S","I","S",":">>

\* council.py:243, 244
OPTIMIZED_MARKER ==
    <<"O","P","T","I","M","I","Z","E","D"," ","R","E","S","P","O","N","S","E",":">>

\* (variant: another wording of the fallback analysis)
FALLBACK_ANALYSIS_Reworded ==
    <<"R","e","s","p","o","n","s","e"," ","a","n","a","l","y","z","e","d"," ","a","n",
      "d"," ","i","m","p","r","o","v","e","d"," ","b","a","s","e","d"," ","o","n"," ",
      "i","d","e","n","t","i","f","i","e","d"," ","g","a","p","s",".">>

\* council.py:250
FALLBACK_ANALYSIS ==
    <<"R","e","s","p","o","n","s","e"," ","a","n","a","l","y","z","e","d"," ","a","n",
      "d"," ","o","p","t","i","m","i","z","e","d"," ","b","y"," ","c","o","m","b","i",
      "n","i","n","g"," ","i","n","f","o","r","m","a","t","i","o","n"," ","f","r","o",
      "m"," ","b","o","t","h"," ","p","r","o","v","i","d","e","r","s",".">>

\* council.py:69, 109
S_ErrorColon ==
    <<"E","r","r","o","r",":"," ">>

\* council.py:55, 107
S_TimeoutAfter ==
    <<"T","i","m","e","o","u","t"," ","a","f","t","e","r"," ">>

S_s ==
    <<"s">>

\* groq_provider.py:34, mistral_provider.py:34, ollama_provider.py:91, council.py:187
S_ErrorFrom ==
    <<"E","r","r","o","r"," ","f","r","o","m"," ">>

S_ColonSpace ==
    <<":"," ">>

\* council.py:147
S_SynthTimedOut ==
    <<"S","y","n","t","h","e","s","i","s"," ","t","i","m","e","d"," ","o","u","t"," ",
      "a","f","t","e","r"," ">>

S_Seconds ==
    <<" ","s","e","c","o","n","d","s">>

\* council.py:149
S_ErrSynthesis ==
    <<"E","r","r","o","r"," ","d","u","r","i","n","g"," ","s","y","n","t","h","e","s",
      "i","s",":"," ">>

\* council.py:156
S_NeedTwo ==
    <<"S","e","q","u","e","n","t","i","a","l"," ","r","e","f","i","n","e","m","e","n",
      "t"," ","r","e","q","u","i","r","e","s"," ","a","t"," ","l","e","a","s","t"," ",
      "2"," ","p","r","o","v","i","d","e","r","s">>

\* council.py:183, 233
S_TimedOutAfter ==
    <<" ","t","i","m","e","d"," ","o","u","t"," ","a","f","t","e","r"," ">>

\* council.py:183-184
S_OllamaHint ==
    <<" ","s","e","c","o","n","d","s","."," ","I","f"," ","u","s","i","n","g"," ","O",
      "l","l","a","m","a",","," ","m","a","k","e"," ","s","u","r","e"," ","i","t","'",
      "s"," ","r","u","n","n","i","n","g"," ","a","n","d"," ","t","h","e"," ","m","o",
      "d","e","l"," ","i","s"," ","d","o","w","n","l","o","a","d","e","d",":"," ","'",
      "o","l","l","a","m","a"," ","p","u","l","l"," ">>

S_Quote ==
    <<"'">>

\* council.py:233
S_RefinementBy ==
    <<"R","e","f","i","n","e","m","e","n","t"," ","b","y"," ">>

\* council.py:233-234
S_RefineTimeoutTail ==
    <<" ","s","e","c","o","n","d","s","."," ","T","h","i","s"," ","m","i","g","h","t",
      " ","b","e"," ","d","u","e"," ","t","o"," ","s","l","o","w"," ","A","P","I"," ",
      "r","e","s","p","o","n","s","e"," ","o","r"," ","n","e","t","w","o","r","k"," ",
      "i","s","s","u","e","s",".">>

\* council.py:238
S_ErrRefinementBy ==
    <<"E","r","r","o","r"," ","d","u","r","i","n","g"," ","r","e","f","i","n","e","m",
      "e","n","t"," ","b","y"," ">>

\* council.py:238-239
S_RefineErrorTail ==
    <<"."," ","C","h","e","c","k"," ","i","f"," ","t","h","e"," ","A","P","I"," ","k",
      "e","y"," ","i","s"," ","v","a","l","i","d"," ","a","n","d"," ","t","h","e"," ",
      "s","e","r","v","i","c","e"," ","i","s"," ","a","v","a","i","l","a","b","l","e",
      ".">>

\* council.py:296
S_SummaryTimedOut ==
    <<"S","u","m","m","a","r","y"," ","g","e","n","e","r","a","t","i","o","n"," ","t",
      "i","m","e","d"," ","o","u","t"," ","a","f","t","e","r"," ">>

\* council.py:298
S_ErrSummary ==
    <<"E","r","r","o","r"," ","g","e","n","e","r","a","t","i","n","g"," ","s","u","m",
      "m","a","r","y",":"," ">>

---------------------------------------------------------------------------
(* Inputs: the provider lists, questions, backend answers and latencies    *)
(* the model explores.                                                     *)

\* The names get_provider_name returns: the three shipped classes, and Custom
\* for any further subclass of BaseLLMProvider (a test double, a new backend)
\* that implements _query_llm and inherits query.
ProviderNames == {"Groq", "Ollama", "Mistral", "Custom"}

\* self.providers: every list of distinct providers up to a length. The list
\* is a plain attribute of the orchestrator; the operations are explored on
\* every such list, and the lists the constructor builds from the environment
\* are modelled by InitializeProviders.
ProviderListsUpTo(max) ==
    {ps \in UNION {[1..n -> ProviderNames] : n \in 1..max} :
        \A i, j \in 1..Len(ps) : i # j => ps[i] # ps[j]}

ProviderLists == ProviderListsUpTo(MaxProviders)

Questions == {"q1", "q2"}

Calls == 1..MaxCalls

\* The plain answer of a backend, and the message of a backend failure.
TextX ==
    <<"X">>

Boom ==
    <<"b","o","o","m">>

Texts == {TextX}

\* The other spelling of the second marker an answer may carry.
IMPROVED_MARKER ==
    <<"I","M","P","R","O","V","E","D"," ","R","E","S","P","O","N","S","E",":">>

\* Filler texts of a refiner's answer: a core with whitespace around it.
Foo ==
    <<"f","o","o">>

Bar ==
    <<"b","a","r">>

XandY ==
    <<"X"," ","a","n","d"," ","Y">>

Pad(before, core, after) == before \o core \o after

Fillers ==
    {Pad(<<"\n">>, Foo, <<"\n">>), Pad(<<"\n">>, Bar, <<>>), Pad(<<" ">>, XandY, <<" ">>)}

\* The two markers the refine prompt asks for (council.py:217-220).
Markers == {ANALYSIS_MARKER, OPTIMIZED_MARKER}

Pieces == Markers \cup Fillers

RECURSIVE Concat(_)
Concat(ps) == IF ps = <<>> THEN <<>> ELSE Head(ps) \o Concat(Tail(ps))

\* The answer "ANALYSIS:\nfoo\nIMPROVED RESPONSE:\nbar", and the same with the
\* marker the refine prompt asks for.
ImprovedExample ==
    ANALYSIS_MARKER \o Pad(<<"\n">>, Foo, <<"\n">>)
    \o IMPROVED_MARKER \o Pad(<<"\n">>, Bar, <<>>)

OptimizedExample ==
    ANALYSIS_MARKER \o Pad(<<"\n">>, Foo, <<"\n">>)
    \o OPTIMIZED_MARKER \o Pad(<<"\n">>, Bar, <<>>)

\* What a backend may answer to the refine prompt: every text of up to
\* MaxPieces pieces, and the answer with the other spelling of the marker.
RefinerOutputs ==
    {Concat(ps) : ps \in UNION {[1..n -> Pieces] : n \in 1..MaxPieces}}
    \cup {ImprovedExample}

\* A refiner's answer in the format the refine prompt asks for.
CompliantOutput ==
    Concat(<<ANALYSIS_MARKER, Pad(<<"\n">>, Foo, <<"\n">>),
             OPTIMIZED_MARKER, Pad(<<" ">>, XandY, <<" ">>)>>)

\* Seconds a backend takes: within both timeouts, between them, beyond both.
Latency == {30, 90, 150}

---------------------------------------------------------------------------
(* Providers (src/providers) and the response cache (src/utils/cache.py).  *)

\* str of a provider's name, as the f-strings format it
NameStr(name) ==
    CASE name = "Groq"    -> <<"G", "r", "o", "q">>
      [] name = "Ollama"  -> <<"O", "l", "l", "a", "m", "a">>
      [] name = "Mistral" -> <<"M", "i", "s", "t", "r", "a", "l">>
      [] name = "Custom"  -> <<"C", "u", "s", "t", "o", "m">>

\* The outcomes of one awaited call, or of a call run to its end.
Ret(text) == [k |-> "ret", v |-> text]
Raise(msg) == [k |-> "raise", v |-> msg]
TimedOut == [k |-> "timeout", v |-> <<>>]
Pending == [k |-> "pending", v |-> <<>>]

\* GroqProvider.query and MistralProvider.query override the base class's query:
\* the backend's answer, or the text "Error from <name>: <e>" when the client
\* raises. OllamaProvider._query_llm does the same behind the inherited query.
\* b is what the backend does: [lat, ok, text].
ErrorFromText(name, b) == S_ErrorFrom \o NameStr(name) \o S_ColonSpace \o b.text

GroqQuery(b) == IF b.ok THEN Ret(b.text) ELSE Ret(ErrorFromText("Groq", b))

MistralQuery(b) == IF b.ok THEN Ret(b.text) ELSE Ret(ErrorFromText("Mistral", b))

OllamaQueryLlm(b) == IF b.ok THEN Ret(b.text) ELSE Ret(ErrorFromText("Ollama", b))

\* _query_llm of any other subclass: abstract in the base class, it returns
\* the backend's text or raises.
CustomQueryLlm(b) == IF b.ok THEN Ret(b.text) ELSE Raise(b.text)

\* The classes that inherit BaseLLMProvider.query, and so the cache.
InheritsQuery(name) == name \in {"Ollama", "Custom"}

\* The text of a prompt the orchestrator formats: its template and values
\* are kept together as one symbol of text.
PromptText(prompt) == <<prompt>>

\* (variant: the key is made of the prompt alone)
GetKey_PromptOnly(prompt, provider) == prompt

\* SimpleCache._get_key: md5 of f"{provider}:{prompt}"; the digest is taken to
\* be collision-free on the texts explored, so the key is the formatted text.
GetKey(prompt, provider) == NameStr(provider) \o <<":">> \o prompt

\* SimpleCache.cache is a dict: a sequence of entries in insertion order.
\* Optional[str]: None, or a str.
NoneValue == [some |-> FALSE, v |-> <<>>]
Some(v) == [some |-> TRUE, v |-> v]

\* SimpleCache.get: dict.get(key), None when the key is not stored
CacheGet(c, prompt, provider) ==
    LET key == GetKey(prompt, provider)
        at == {i \in 1..Len(c) : c[i].key = key}
    IN  IF at = {} THEN NoneValue ELSE Some(c[Min(at)].value)

\* (variant: a full dict loses the entry inserted last)
SimpleCacheSet_EvictNewest(c, capacity, prompt, provider, response) ==
    LET key == GetKey(prompt, provider)
        kept == IF Len(c) >= capacity THEN SubSeq(c, 1, Len(c) - 1) ELSE c
        at == {i \in 1..Len(kept) : kept[i].key = key}
    IN  IF at = {}
        THEN Append(kept, [key |-> key, value |-> response])
        ELSE [kept EXCEPT ![Min(at)].value = response]

\* (variant: the first entry is deleted only once the dict is over its
\* capacity)
SimpleCacheSet_EvictWhenOver(c, capacity, prompt, provider, response) ==
    LET key == GetKey(prompt, provider)
        kept == IF Len(c) > capacity THEN Tail(c) ELSE c
        at == {i \in 1..Len(kept) : kept[i].key = key}
    IN  IF at = {}
        THEN Append(kept, [key |-> key, value |-> response])
        ELSE [kept EXCEPT ![Min(at)].value = response]

\* SimpleCache.set on an instance of the given capacity (self.max_size): when
\* the dict is full its first entry is deleted, whatever the key being set;
\* then the key is assigned (in place when it is stored)
SimpleCacheSet(c, capacity, prompt, provider, response) ==
    LET key == GetKey(prompt, provider)
        kept == IF Len(c) >= capacity THEN Tail(c) ELSE c
        at == {i \in 1..Len(kept) : kept[i].key = key}
    IN  IF at = {}
        THEN Append(kept, [key |-> key, value |-> response])
        ELSE [kept EXCEPT ![Min(at)].value = response]

\* set on the global instance
CacheSet(c, prompt, provider, response) ==
    SimpleCacheSet(c, max_size, prompt, provider, response)

\* BaseLLMProvider.query, first half (base.py:27-31): `if cached: return cached`
\* takes a stored text only when it is not empty.
CacheHit(c, prompt, provider) ==
    LET cached == CacheGet(c, prompt, provider)
    IN  IF InheritsQuery(provider) /\ cached.some /\ cached.v # <<>>
        THEN cached ELSE NoneValue

\* BaseLLMProvider.query run to its end (base.py:25-39) by a provider that
\* inherits it, the backend doing b: the outcome, the cache afterwards and
\* whether the cache answered
BaseQuery(c, name, prompt, b) ==
    LET cached == CacheGet(c, prompt, name)
    IN  IF cached.some /\ cached.v # <<>>
        THEN [out |-> Ret(cached.v), cache |-> c, hit |-> TRUE]
        ELSE LET response == IF name = "Ollama" THEN OllamaQueryLlm(b)
                             ELSE CustomQueryLlm(b)
             IN  [out |-> response, hit |-> FALSE,
                  cache |-> IF response.k = "ret"
                            THEN CacheSet(c, prompt, name, response.v) ELSE c]

\* provider.query(prompt) run to its end: GroqProvider and MistralProvider
\* override query and never touch the cache
Query(c, name, prompt, b) ==
    CASE name = "Groq"    -> [out |-> GroqQuery(b), cache |-> c, hit |-> FALSE]
      [] name = "Mistral" -> [out |-> MistralQuery(b), cache |-> c, hit |-> FALSE]
      [] OTHER            -> BaseQuery(c, name, prompt, b)

\* A provider call in flight: asyncio.wait_for(provider.query(prompt), timeout).
\* hit is the cache lookup made when the call starts, out its outcome, and
\* backend what the backend did: "unused" on a cache hit, "slow" when cut off
\* by the timeout, else "answered" or "failed".
Request(provider, prompt, timeout, c) ==
    [provider |-> provider, prompt |-> prompt, timeout |-> timeout,
     hit |-> CacheHit(c, PromptText(prompt), provider), out |-> Pending,
     backend |-> "pending"]

BackendOutcome(req, b) ==
    IF req.hit.some THEN "unused"
    ELSE IF b.lat > req.timeout THEN "slow"
    ELSE IF b.ok THEN "answered" ELSE "failed"

\* provider.query(prompt) when the backend does b and the cache did not hit
ProviderQuery(name, b) ==
    CASE name = "Groq"    -> GroqQuery(b)
      [] name = "Mistral" -> MistralQuery(b)
      [] name = "Ollama"  -> OllamaQueryLlm(b)
      [] name = "Custom"  -> CustomQueryLlm(b)

\* asyncio.wait_for around the call: a cache hit returns at once; a backend
\* slower than the timeout is cancelled and TimeoutError raised; else the
\* provider's own outcome.
WaitFor(req, b) ==
    IF req.hit.some THEN Ret(req.hit.v)
    ELSE IF b.lat > req.timeout THEN TimedOut
    ELSE ProviderQuery(req.provider, b)

\* BaseLLMProvider.query, second half (base.py:34-39): the response is stored
\* when _query_llm returned before the timeout cancelled the call.
CacheAfter(c, req, b) ==
    IF InheritsQuery(req.provider) /\ ~req.hit.some /\ WaitFor(req, b).k = "ret"
    THEN CacheSet(c, PromptText(req.prompt), req.provider, WaitFor(req, b).v)
    ELSE c

---------------------------------------------------------------------------
(* Prompts: the template and the values formatted into it.                 *)

Prompt(template, question, a, b) ==
    [template |-> template, question |-> question, a |-> a, b |-> b]

\* council.py:46-50
QueryAllPrompt(prompt) == Prompt("query_all", prompt, <<>>, <<>>)

\* council.py:86-99
CritiquePrompt(question, other_responses) ==
    Prompt("critique", question, other_responses, <<>>)

\* council.py:122-139
SynthesisPrompt(question, responses, critiques) ==
    Prompt("synthesis", question, responses, critiques)

\* council.py:165-169
BaselinePrompt(prompt) == Prompt("baseline", prompt, <<>>, <<>>)

\* council.py:201-221: the names and baselines of both providers
\* (first and second are <<provider name, baseline>>)
RefinePrompt(prompt, first, second) == Prompt("refine", prompt, first, second)

\* council.py:278-288
SummaryPrompt(prompt) == Prompt("summary", prompt, <<>>, <<>>)

---------------------------------------------------------------------------
(* LLMCouncil (src/council.py): what each operation computes from the      *)
(* outcome of an awaited provider call.                                    *)

\* How an operation ends, and a dict assignment d[key] = value.
NoResult == [kind |-> "none"]
Returned(value) == [kind |-> "return", value |-> value]
Raised(type, msg) == [kind |-> "raise", type |-> type, msg |-> msg]

DictSet(d, key, value) ==
    [x \in (DOMAIN d) \cup {key} |-> IF x = key THEN value ELSE d[x]]

\* (variant: a timeout is returned as plain text, not as an Exception object)
QueryWithTimeout_TimeoutAsText(out) ==
    CASE out.k = "ret"     -> [exc |-> FALSE, v |-> out.v]
      [] out.k = "timeout" ->
            [exc |-> FALSE, v |-> S_TimeoutAfter \o IntToStr(API_TIMEOUT) \o S_s]
      [] out.k = "raise"   -> [exc |-> TRUE, v |-> out.v]

\* query_all.query_with_timeout (council.py:51-57): the text, or an Exception
\* object returned (not raised) for a timeout or an exception
QueryWithTimeout(out) ==
    CASE out.k = "ret"     -> [exc |-> FALSE, v |-> out.v]
      [] out.k = "timeout" ->
            [exc |-> TRUE, v |-> S_TimeoutAfter \o IntToStr(API_TIMEOUT) \o S_s]
      [] out.k = "raise"   -> [exc |-> TRUE, v |-> out.v]

\* (variant: only the providers that answered get an entry)
QueryAllResults_OnlyAnswered(ps, outs) ==
    [name \in {ps[i] : i \in {j \in 1..Len(ps) : outs[j].k = "ret"}} |->
        outs[Max({j \in 1..Len(ps) : ps[j] = name})].v]

\* query_all (council.py:65-73): one entry per provider name, the later of two
\* providers of one name overwriting the earlier; outs are the outcomes of the
\* gathered calls in provider order
QueryAllResults(ps, outs) ==
    [name \in {ps[i] : i \in 1..Len(ps)} |->
        LET i == Max({j \in 1..Len(ps) : ps[j] = name})
            response == QueryWithTimeout(outs[i])
        IN  IF response.exc THEN S_ErrorColon \o response.v ELSE response.v]

\* (variant: the provider's own response is not left out)
OtherResponses_All(responses, provider_name) ==
    [k \in DOMAIN responses |-> responses[k]]

\* _generate_critiques (council.py:82-84)
OtherResponses(responses, provider_name) ==
    [k \in (DOMAIN responses) \ {provider_name} |-> responses[k]]

\* _generate_critiques (council.py:100-109)
CritiqueEntry(out) ==
    CASE out.k = "ret"     -> out.v
      [] out.k = "timeout" -> S_TimeoutAfter \o IntToStr(API_TIMEOUT) \o S_s
      [] out.k = "raise"   -> S_ErrorColon \o out.v

\* (variant: a failed synthesis is reported in band, as a failed critique is)
SynthesizeAnswer_InBand(out) ==
    CASE out.k = "ret"     -> Returned(out.v)
      [] out.k = "timeout" ->
            Returned(S_TimeoutAfter \o IntToStr(API_TIMEOUT) \o S_s)
      [] out.k = "raise"   -> Returned(S_ErrorColon \o out.v)

\* _synthesize_answer (council.py:140-149)
SynthesizeAnswer(out) ==
    CASE out.k = "ret"     -> Returned(out.v)
      [] out.k = "timeout" ->
            Raised("RuntimeError",
                   S_SynthTimedOut \o IntToStr(API_TIMEOUT) \o S_Seconds)
      [] out.k = "raise"   -> Raised("RuntimeError", S_ErrSynthesis \o out.v)

\* consult (council.py:336-347): the exception of the synthesis propagates
ConsultResult(prompt, responses, critiques, final) ==
    IF final.kind = "raise" THEN final
    ELSE Returned([question |-> prompt, responses |-> responses,
                   critiques |-> critiques, final_answer |-> final.value])

\* sequential_refine (council.py:155)
TooFewProviders(ps) == Len(ps) < 2

\* sequential_refine (council.py:175 and 225)
BaselineTimeout(provider_name) ==
    IF provider_name = "Ollama" THEN OLLAMA_TIMEOUT ELSE API_TIMEOUT

\* (variant: the refine call is given the remote allowance whatever the
\* refiner)
RefineTimeout_AlwaysApi(refiner_name) == API_TIMEOUT

RefineTimeout(refiner_name) ==
    IF refiner_name = "Ollama" THEN OLLAMA_TIMEOUT ELSE API_TIMEOUT

\* getattr(provider, 'default_model', 'llama3.1') (council.py:184), with the
\* model names the classes default to (groq_provider.py:14,
\* mistral_provider.py:9, ollama_provider.py:12)
DefaultModel(provider_name) ==
    CASE provider_name = "Groq" ->
    <<"l","l","a","m","a","-","3",".","1","-","7","0","b","-","v","e","r","s","a","t",
      "i","l","e">>
      [] provider_name = "Mistral" ->
    <<"m","i","s","t","r","a","l","-","l","a","r","g","e","-","l","a","t","e","s","t">>
      [] OTHER ->
    <<"l","l","a","m","a","3",".","1">>

\* sequential_refine.get_independent_response (council.py:172-187)
GetIndependentResponse(provider_name, out) ==
    CASE out.k = "ret"     -> Returned(out.v)
      [] out.k = "timeout" ->
            Raised("RuntimeError",
                   NameStr(provider_name) \o S_TimedOutAfter
                   \o IntToStr(BaselineTimeout(provider_name)) \o S_OllamaHint
                   \o DefaultModel(provider_name) \o S_Quote)
      [] out.k = "raise"   ->
            Raised("RuntimeError",
                   S_ErrorFrom \o NameStr(provider_name) \o S_ColonSpace \o out.v)

\* (variant: a refine call that timed out counts as an empty answer)
RefineCall_TimeoutAsEmpty(refiner_name, out) ==
    CASE out.k = "ret"     -> Returned(out.v)
      [] out.k = "timeout" -> Returned(<<>>)
      [] out.k = "raise"   ->
            Raised("RuntimeError",
                   S_ErrRefinementBy \o NameStr(refiner_name) \o S_ColonSpace
                   \o out.v \o S_RefineErrorTail)

\* sequential_refine, the refine call (council.py:226-240)
RefineCall(refiner_name, out) ==
    CASE out.k = "ret"     -> Returned(out.v)
      [] out.k = "timeout" ->
            Raised("RuntimeError",
                   S_RefinementBy \o NameStr(refiner_name) \o S_TimedOutAfter
                   \o IntToStr(API_TIMEOUT) \o S_RefineTimeoutTail)
      [] out.k = "raise"   ->
            Raised("RuntimeError",
                   S_ErrRefinementBy \o NameStr(refiner_name) \o S_ColonSpace
                   \o out.v \o S_RefineErrorTail)

\* (variant: the sections are not stripped)
ParseRefinement_NoStrip(combined_response) ==
    IF Contains(combined_response, ANALYSIS_MARKER)
       /\ Contains(combined_response, OPTIMIZED_MARKER)
    THEN LET parts == Split(combined_response, OPTIMIZED_MARKER)
         IN  [analysis |-> Replace(parts[1], ANALYSIS_MARKER, <<>>),
              optimized_response |->
                  IF Len(parts) > 1 THEN parts[2] ELSE combined_response]
    ELSE [analysis |-> FALLBACK_ANALYSIS, optimized_response |-> combined_response]

\* (variant: 'IMPROVED RESPONSE:' is taken for the second marker as well)
ParseRefinement_BothSpellings(combined_response) ==
    LET marker == IF Contains(combined_response, OPTIMIZED_MARKER)
                  THEN OPTIMIZED_MARKER ELSE IMPROVED_MARKER
    IN  IF Contains(combined_response, ANALYSIS_MARKER)
           /\ Contains(combined_response, marker)
        THEN LET parts == Split(combined_response, marker)
             IN  [analysis |-> Strip(Replace(parts[1], ANALYSIS_MARKER, <<>>)),
                  optimized_response |->
                      IF Len(parts) > 1 THEN Strip(parts[2]) ELSE combined_response]
        ELSE [analysis |-> FALLBACK_ANALYSIS,
              optimized_response |-> combined_response]

\* (variant: one marker is enough for the parse to be tried)
ParseRefinement_EitherMarker(combined_response) ==
    IF Contains(combined_response, ANALYSIS_MARKER)
       \/ Contains(combined_response, OPTIMIZED_MARKER)
    THEN LET parts == Split(combined_response, OPTIMIZED_MARKER)
         IN  [analysis |-> Strip(Replace(parts[1], ANALYSIS_MARKER, <<>>)),
              optimized_response |->
                  IF Len(parts) > 1 THEN Strip(parts[2]) ELSE combined_response]
    ELSE [analysis |-> FALLBACK_ANALYSIS, optimized_response |-> combined_response]

\* sequential_refine, the parse (council.py:243-250)
ParseRefinement(combined_response) ==
    IF Contains(combined_response, ANALYSIS_MARKER)
       /\ Contains(combined_response, OPTIMIZED_MARKER)
    THEN LET parts == Split(combined_response, OPTIMIZED_MARKER)
         IN  [analysis |-> Strip(Replace(parts[1], ANALYSIS_MARKER, <<>>)),
              optimized_response |->
                  IF Len(parts) > 1 THEN Strip(parts[2]) ELSE combined_response]
    ELSE [analysis |-> FALLBACK_ANALYSIS, optimized_response |-> combined_response]

\* sequential_refine, the result (council.py:258-266)
\* (first and second are <<provider name, baseline>>)
SequentialRefineResult(prompt, first, second, refined) ==
    IF refined.kind = "raise" THEN refined
    ELSE LET parsed == ParseRefinement(refined.value)
         IN  Returned([question |-> prompt,
                       independent_responses |->
                           DictSet(DictSet(<<>>, first[1], first[2]),
                                   second[1], second[2]),
                       analysis |-> parsed.analysis,
                       final_answer |-> parsed.optimized_response])

\* summarize (council.py:290-307)
SummarizeResult(prompt, out) ==
    CASE out.k = "ret"     -> Returned([question |-> prompt, summary |-> out.v])
      [] out.k = "timeout" ->
            Raised("RuntimeError",
                   S_SummaryTimedOut \o IntToStr(API_TIMEOUT) \o S_Seconds)
      [] out.k = "raise"   -> Raised("RuntimeError", S_ErrSummary \o out.v)

---------------------------------------------------------------------------
(* The confidence scorer of vote mode (spec 4.2). The repository's sources *)
(* hold no scorer; it is modelled from the algorithm the specification     *)
(* gives. Scores are exact fractions [n, d] with d > 0.                    *)

Frac(n, d) == [n |-> n, d |-> d]

FracZero == Frac(0, 1)

FracAdd(x, y) == Frac(x.n * y.d + y.n * x.d, x.d * y.d)

FracLeq(x, y) == x.n * y.d <= y.n * x.d

FracEq(x, y) == x.n * y.d = y.n * x.d

\* x / y, for y > 0
FracDiv(x, y) == Frac(x.n * y.d, x.d * y.n)

\* str.lower() on the letters explored
LowerChar(ch) ==
    CASE ch = "A" -> "a"
      [] ch = "B" -> "b"
      [] OTHER    -> ch

LowerText(s) == [i \in 1..Len(s) |-> LowerChar(s[i])]

\* wordset: the words of the lower-cased text, a word being a maximal run of
\* characters that are not whitespace
WordSet(s) ==
    LET t == LowerText(s)
        word(i, j) == /\ \A k \in i..j : t[k] \notin Whitespace
                      /\ i = 1 \/ t[i - 1] \in Whitespace
                      /\ j = Len(t) \/ t[j + 1] \in Whitespace
    IN  {SubSeq(t, i, j) : <<i, j>> \in
            {ij \in (1..Len(t)) \X (1..Len(t)) : ij[1] <= ij[2] /\ word(ij[1], ij[2])}}

\* similarity(a, b) = |wordset(a) /\ wordset(b)| / |wordset(a) \/ wordset(b)|,
\* 0 when either set is empty
Similarity(a, b) ==
    LET wa == WordSet(a)
        wb == WordSet(b)
    IN  IF wa = {} \/ wb = {} THEN FracZero
        ELSE Frac(Cardinality(wa \cap wb), Cardinality(wa \cup wb))

\* The running score of the provider at position i: the similarity of every
\* unordered pair it belongs to. responses is the response set in iteration
\* order, a sequence of [name, text].
RECURSIVE SumSimilarities(_, _, _)
SumSimilarities(responses, i, j) ==
    IF j > Len(responses) THEN FracZero
    ELSE IF j = i THEN SumSimilarities(responses, i, j + 1)
    ELSE FracAdd(Similarity(responses[i].text, responses[j].text),
                 SumSimilarities(responses, i, j + 1))

RawScores(responses) ==
    [i \in 1..Len(responses) |-> SumSimilarities(responses, i, 1)]

\* The maximum of a non-empty sequence of fractions
FracMax(scores) ==
    scores[CHOOSE i \in 1..Len(scores) :
              \A j \in 1..Len(scores) : FracLeq(scores[j], scores[i])]

\* (variant: the scores are divided by their total)
Normalize_ByTotal(scores) ==
    LET RECURSIVE Total(_)
        Total(k) == IF k = 0 THEN FracZero ELSE FracAdd(scores[k], Total(k - 1))
        total == Total(Len(scores))
    IN  IF total.n = 0 THEN scores
        ELSE [i \in 1..Len(scores) |-> FracDiv(scores[i], total)]

\* Normalization: every score divided by the maximum score, the scores
\* unchanged when the maximum is 0
Normalize(scores) ==
    LET max_score == FracMax(scores)
    IN  IF max_score.n = 0 THEN scores
        ELSE [i \in 1..Len(scores) |-> FracDiv(scores[i], max_score)]

\* score(responses): the confidence of each provider, in iteration order
Score(responses) == Normalize(RawScores(responses))

\* (variant: of the providers with the maximum confidence the last one wins)
SelectBest_LastMax(responses, scores) ==
    LET best == Max({i \in 1..Len(scores) :
                        \A j \in 1..Len(scores) : FracLeq(scores[j], scores[i])})
    IN  [answer |-> responses[best].text, provider |-> responses[best].name]

\* selectBest(responses, scores): the provider with the maximum confidence,
\* the first one met in iteration order among equals
SelectBest(responses, scores) ==
    LET best == Min({i \in 1..Len(scores) :
                        \A j \in 1..Len(scores) : FracLeq(scores[j], scores[i])})
    IN  [answer |-> responses[best].text, provider |-> responses[best].name]

---------------------------------------------------------------------------
(* The state.                                                              *)

VARIABLES
    council,         \* how the orchestrator came to its provider list
    providers,       \* LLMCouncil.providers
    current_prompt,  \* LLMCouncil._current_prompt
    cache,           \* utils.cache._cache.cache
    calls,           \* per call of an operation: its coroutine's locals
    log,             \* per call: the provider calls it issued, in order,
                     \* each with its outcome once it has one
    backends,        \* what the backends of this run may do
    scorer,          \* a run of the confidence scorer: its input and results
    queries,         \* provider queries made one after the other, and the
                     \* backends that answer them
    simple_cache,    \* an instance of SimpleCache and the calls made on it
    memory           \* an instance of ConversationMemory

\* The orchestrator and what it runs against.
orchestrator == <<council, providers, current_prompt, cache, calls, log, backends>>

\* The components exercised apart from the orchestrator.
components == <<scorer, queries, simple_cache, memory>>

vars == <<orchestrator, components>>

\* The components at rest, as they are while the orchestrator runs.
ScorerIdle == scorer = [stage |-> "idle"]

QueriesIdle == queries = [stage |-> "idle"]

SimpleCacheIdle == simple_cache = [stage |-> "idle"]

MemoryIdle == memory = [stage |-> "idle"]

ComponentsIdle == ScorerIdle /\ QueriesIdle /\ SimpleCacheIdle /\ MemoryIdle

IdleCall ==
    [op |-> "none", pc |-> "idle", prompt |-> "", responses |-> <<>>,
     critiques |-> <<>>, result |-> NoResult]

\* What a backend may do with a request: b = [lat, ok, text], an answer (ok) or
\* a failure with its message, after lat seconds. The runs explored are of three
\* kinds, by the backends they meet:
\*   "unreliable": one call; every backend may answer, fail or be slow;
\*   "talkative":  one call; the backends answer promptly, and the refine prompt
\*                 is answered with any text of RefinerOutputs;
\*   "reliable":   MaxCalls calls, concurrent or one after the other; the
\*                 backends answer promptly.
Backends(req) ==
    CASE backends = "reliable" -> {[lat |-> 30, ok |-> TRUE, text |-> TextX]}
      [] backends = "talkative" ->
            {[lat |-> 30, ok |-> TRUE, text |-> t] :
                t \in IF req.prompt.template = "refine" THEN RefinerOutputs ELSE Texts}
      [] backends = "unreliable" ->
            {[lat |-> l, ok |-> TRUE, text |-> t] :
                l \in Latency,
                t \in IF req.prompt.template = "refine"
                      THEN Texts \cup {CompliantOutput} ELSE Texts}
            \cup {[lat |-> l, ok |-> FALSE, text |-> Boom] : l \in Latency}

\* Call c may start: calls start in the order of their numbers.
MayStart(c) ==
    /\ council.state \in {"constructed", "assigned"}
    /\ calls[c].pc = "idle"
    /\ c > 1 => calls[c - 1].pc # "idle" /\ backends = "reliable"

\* An orchestrator whose provider list was assigned to it (self.providers is
\* a plain attribute), with an empty cache.
Constructed ==
    /\ council = [state |-> "assigned"]
    /\ current_prompt = ""
    /\ cache = <<>>
    /\ calls = [c \in Calls |-> IdleCall]
    /\ log = [c \in Calls |-> <<>>]
    /\ ComponentsIdle

\* One call on the orchestrator, against any backends.
Init ==
    /\ Constructed
    /\ providers \in ProviderLists
    /\ backends \in {"talkative", "unreliable"}

\* MaxCalls calls on the orchestrator, overlapping or one after the other.
InitConcurrent ==
    /\ Constructed
    /\ providers \in ProviderListsUpTo(MaxProvidersReliable)
    /\ backends = "reliable"

Outs(requests, n) == [i \in 1..n |-> requests[i].out]

Last(s) == s[Len(s)]

\* The log with the outcome of request i filled in.
Completed(requests, i, b) ==
    [requests EXCEPT ![i].out = WaitFor(requests[i], b),
                     ![i].backend = BackendOutcome(requests[i], b)]

---------------------------------------------------------------------------
(* Construction: LLMCouncil.__init__ and _initialize_providers             *)
(* (council.py:13-42).                                                     *)

\* What the constructor reads: the API keys being set, the value of
\* USE_OLLAMA ("unset" when the variable is not set) and whether the Ollama
\* server answers GET /api/tags with status 200.
UseOllamaValues == {"unset", "false", "true", "True", "YES", "1", "on"}

Environments ==
    [GROQ_API_KEY : BOOLEAN, MISTRAL_API_KEY : BOOLEAN,
     USE_OLLAMA : UseOllamaValues, ollama_up : BOOLEAN]

\* str.lower() on the values explored
Lower(v) ==
    CASE v = "True" -> "true"
      [] v = "YES"  -> "yes"
      [] OTHER      -> v

\* os.getenv("USE_OLLAMA", "false").lower() in ("true", "1", "yes")
\* (council.py:27)
UseOllama(e) ==
    Lower(IF e.USE_OLLAMA = "unset" THEN "false" ELSE e.USE_OLLAMA)
        \in {"true", "1", "yes"}

\* The abstract methods of BaseLLMProvider (base.py:41-49) a class leaves
\* without an implementation: GroqProvider and MistralProvider define query
\* and get_provider_name but not _query_llm.
AbstractMethodsLeft(class) ==
    IF class \in {"Groq", "Mistral"} THEN {"_query_llm"} ELSE {}

\* Calling a class: object creation raises TypeError while an abstract
\* method is left; otherwise __init__ runs and may raise. TRUE when an
\* instance results.
GroqProviderNew(e) ==
    AbstractMethodsLeft("Groq") = {} /\ e.GROQ_API_KEY

MistralProviderNew(e) ==
    AbstractMethodsLeft("Mistral") = {} /\ e.MISTRAL_API_KEY

OllamaProviderNew(e) ==
    AbstractMethodsLeft("Ollama") = {} /\ e.ollama_up

\* _initialize_providers (council.py:18-39): the list it appends to; every
\* exception of a constructor is caught and printed as a warning
InitializeProviders(e) ==
    (IF GroqProviderNew(e) THEN <<"Groq">> ELSE <<>>)
    \o (IF UseOllama(e) /\ OllamaProviderNew(e) THEN <<"Ollama">> ELSE <<>>)
    \o (IF ~UseOllama(e) /\ MistralProviderNew(e) THEN <<"Mistral">> ELSE <<>>)

\* (variant: an empty provider list is accepted)
LLMCouncilInit_NoCheck ==
    /\ council.state = "new"
    /\ providers' = InitializeProviders(council.env)
    /\ council' = [council EXCEPT !.state = "constructed"]
    /\ current_prompt' = ""
    /\ UNCHANGED <<components, cache, calls, log, backends>>

\* LLMCouncil() (council.py:13-16, 41-42): RuntimeError when the list stayed
\* empty, and then no orchestrator exists
LLMCouncilInit ==
    /\ council.state = "new"
    /\ providers' = InitializeProviders(council.env)
    /\ council' = [council EXCEPT !.state =
                      IF InitializeProviders(council.env) = <<>>
                      THEN "failed" ELSE "constructed"]
    /\ current_prompt' = ""
    /\ UNCHANGED <<components, cache, calls, log, backends>>

\* Before LLMCouncil() is called, in any environment.
InitConstruct ==
    /\ council \in [state : {"new"}, env : Environments]
    /\ providers = <<>>
    /\ current_prompt = ""
    /\ cache = <<>>
    /\ calls = [c \in Calls |-> IdleCall]
    /\ log = [c \in Calls |-> <<>>]
    /\ ComponentsIdle
    /\ backends \in {"reliable", "unreliable"}

---------------------------------------------------------------------------
(* consult (council.py:309-347).                                           *)

\* consult up to the await of query_all's gather (council.py:311-317, 46-63)
consult(c, prompt) ==
    /\ MayStart(c)
    /\ current_prompt' = prompt
    /\ log' = [log EXCEPT ![c] =
                  [i \in 1..Len(providers) |->
                      Request(providers[i], QueryAllPrompt(prompt), API_TIMEOUT, cache)]]
    /\ calls' = [calls EXCEPT ![c] =
                    [IdleCall EXCEPT !.op = "consult", !.pc = "query_all",
                                     !.prompt = prompt]]
    /\ UNCHANGED <<components, council, providers, cache, backends>>

\* The critique call to provider i (council.py:79-104), issued with the
\* question the instance holds at that moment.
CritiqueRequest(i, responses, c) ==
    Request(providers[i],
            CritiquePrompt(current_prompt, OtherResponses(responses, providers[i])),
            API_TIMEOUT, c)

\* (variant: the critiques are not formatted into the synthesis prompt)
SynthesisRequest_WithoutCritiques(responses, critiques, c) ==
    Request(providers[1], SynthesisPrompt(current_prompt, responses, <<>>),
            API_TIMEOUT, c)

\* The synthesis call (council.py:120-144), to the first provider.
SynthesisRequest(responses, critiques, c) ==
    Request(providers[1], SynthesisPrompt(current_prompt, responses, critiques),
            API_TIMEOUT, c)

\* (variant: the calls are awaited one after the other in provider order, a
\* call starting when the one before it has finished)
QueryAllDone_InOrder(c, i) ==
    /\ calls[c].pc = "query_all"
    /\ i \in 1..Len(providers)
    /\ log[c][i].out = Pending
    /\ \A j \in 1..(i - 1) : log[c][j].out # Pending
    /\ \E b \in Backends(log[c][i]) :
       LET n == Len(providers)
           requests == Completed(log[c], i, b)
           cache1 == CacheAfter(cache, log[c][i], b)
           responses == QueryAllResults(providers, Outs(requests, n))
       IN  /\ cache' = cache1
           /\ IF \A j \in 1..n : requests[j].out # Pending
              THEN /\ log' = [log EXCEPT ![c] =
                                 Append(requests, CritiqueRequest(1, responses, cache1))]
                   /\ calls' = [calls EXCEPT ![c].pc = "critique",
                                             ![c].responses = responses]
              ELSE /\ log' = [log EXCEPT ![c] = requests]
                   /\ UNCHANGED calls
    /\ UNCHANGED <<components, council, providers, current_prompt, backends>>

\* (variant: the critique calls are gathered as the fan-out calls are, all of
\* them issued when query_all has returned)
QueryAllDone_GatherCritiques(c, i) ==
    /\ calls[c].pc = "query_all"
    /\ i \in 1..Len(providers)
    /\ log[c][i].out = Pending
    /\ \E b \in Backends(log[c][i]) :
       LET n == Len(providers)
           requests == Completed(log[c], i, b)
           cache1 == CacheAfter(cache, log[c][i], b)
           responses == QueryAllResults(providers, Outs(requests, n))
       IN  /\ cache' = cache1
           /\ IF \A j \in 1..n : requests[j].out # Pending
              THEN /\ log' = [log EXCEPT ![c] =
                                 requests \o [k \in 1..n |->
                                                 CritiqueRequest(k, responses, cache1)]]
                   /\ calls' = [calls EXCEPT ![c].pc = "critique",
                                             ![c].responses = responses]
              ELSE /\ log' = [log EXCEPT ![c] = requests]
                   /\ UNCHANGED calls
    /\ UNCHANGED <<components, council, providers, current_prompt, backends>>

\* (variant: a call of the fan-out that failed or timed out is made once
\* more)
QueryAllDone_Retry(c, i) ==
    /\ calls[c].pc = "query_all"
    /\ i \in 1..Len(log[c])
    /\ log[c][i].out = Pending
    /\ \E b \in Backends(log[c][i]) :
       LET n == Len(log[c])
           requests == Completed(log[c], i, b)
           cache1 == CacheAfter(cache, log[c][i], b)
           responses == QueryAllResults(providers, Outs(requests, Len(providers)))
       IN  /\ cache' = cache1
           /\ IF requests[i].out.k # "ret" /\ n = Len(providers)
              THEN /\ log' = [log EXCEPT ![c] =
                                 Append(requests,
                                        Request(log[c][i].provider, log[c][i].prompt,
                                                API_TIMEOUT, cache1))]
                   /\ UNCHANGED calls
              ELSE IF \A j \in 1..n : requests[j].out # Pending
              THEN /\ log' = [log EXCEPT ![c] =
                                 Append(requests, CritiqueRequest(1, responses, cache1))]
                   /\ calls' = [calls EXCEPT ![c].pc = "critique",
                                             ![c].responses = responses]
              ELSE /\ log' = [log EXCEPT ![c] = requests]
                   /\ UNCHANGED calls
    /\ UNCHANGED <<components, council, providers, current_prompt, backends>>

\* One gathered call of query_all completes. When it is the last one, gather
\* returns, query_all builds its results (council.py:65-73) and
\* _generate_critiques issues its first call.
QueryAllDone(c, i) ==
    /\ calls[c].pc = "query_all"
    /\ i \in 1..Len(providers)
    /\ log[c][i].out = Pending
    /\ \E b \in Backends(log[c][i]) :
       LET n == Len(providers)
           requests == Completed(log[c], i, b)
           cache1 == CacheAfter(cache, log[c][i], b)
           responses == QueryAllResults(providers, Outs(requests, n))
       IN  /\ cache' = cache1
           /\ IF \A j \in 1..n : requests[j].out # Pending
              THEN /\ log' = [log EXCEPT ![c] =
                                 Append(requests, CritiqueRequest(1, responses, cache1))]
                   /\ calls' = [calls EXCEPT ![c].pc = "critique",
                                             ![c].responses = responses]
              ELSE /\ log' = [log EXCEPT ![c] = requests]
                   /\ UNCHANGED calls
    /\ UNCHANGED <<components, council, providers, current_prompt, backends>>

\* (variant: a critique call that times out or raises ends consult with the
\* error, as a failed synthesis call does)
CritiqueDone_AbortOnFailure(c) ==
    /\ calls[c].pc = "critique"
    /\ \E b \in Backends(Last(log[c])) :
       LET n == Len(providers)
           i == Len(log[c]) - n
           requests == Completed(log[c], Len(log[c]), b)
           cache1 == CacheAfter(cache, Last(log[c]), b)
           responses == calls[c].responses
           critiques == DictSet(calls[c].critiques, providers[i],
                                CritiqueEntry(Last(requests).out))
       IN  /\ cache' = cache1
           /\ IF Last(requests).out.k # "ret"
              THEN /\ log' = [log EXCEPT ![c] = requests]
                   /\ calls' = [calls EXCEPT
                                   ![c].pc = "raised",
                                   ![c].result =
                                       Raised("RuntimeError",
                                              CritiqueEntry(Last(requests).out))]
              ELSE IF i < n
              THEN /\ log' = [log EXCEPT ![c] =
                                 Append(requests, CritiqueRequest(i + 1, responses, cache1))]
                   /\ calls' = [calls EXCEPT ![c].critiques = critiques]
              ELSE /\ log' = [log EXCEPT ![c] =
                                 Append(requests,
                                        SynthesisRequest(responses, critiques, cache1))]
                   /\ calls' = [calls EXCEPT ![c].critiques = critiques,
                                             ![c].pc = "synthesis"]
    /\ UNCHANGED <<components, council, providers, current_prompt, backends>>

\* The critique call in flight completes (council.py:100-109); the loop issues
\* the next one, or returns and _synthesize_answer issues its call.
CritiqueDone(c) ==
    /\ calls[c].pc = "critique"
    /\ \E b \in Backends(Last(log[c])) :
       LET n == Len(providers)
           i == Len(log[c]) - n
           requests == Completed(log[c], Len(log[c]), b)
           cache1 == CacheAfter(cache, Last(log[c]), b)
           responses == calls[c].responses
           critiques == DictSet(calls[c].critiques, providers[i],
                                CritiqueEntry(Last(requests).out))
       IN  /\ cache' = cache1
           /\ IF i < n
              THEN /\ log' = [log EXCEPT ![c] =
                                 Append(requests, CritiqueRequest(i + 1, responses, cache1))]
                   /\ calls' = [calls EXCEPT ![c].critiques = critiques]
              ELSE /\ log' = [log EXCEPT ![c] =
                                 Append(requests,
                                        SynthesisRequest(responses, critiques, cache1))]
                   /\ calls' = [calls EXCEPT ![c].critiques = critiques,
                                             ![c].pc = "synthesis"]
    /\ UNCHANGED <<components, council, providers, current_prompt, backends>>

\* (variant: a synthesis call cut off by its timeout is neither reported nor
\* awaited again, and consult never ends)
SynthesisDone_HangOnTimeout(c) ==
    /\ calls[c].pc = "synthesis"
    /\ Last(log[c]).out = Pending
    /\ \E b \in Backends(Last(log[c])) :
       LET requests == Completed(log[c], Len(log[c]), b)
           result == ConsultResult(calls[c].prompt, calls[c].responses,
                                   calls[c].critiques,
                                   SynthesizeAnswer(Last(requests).out))
       IN  /\ cache' = CacheAfter(cache, Last(log[c]), b)
           /\ log' = [log EXCEPT ![c] = requests]
           /\ IF Last(requests).out.k = "timeout"
              THEN UNCHANGED calls
              ELSE calls' = [calls EXCEPT ![c].result = result,
                                          ![c].pc = IF result.kind = "raise"
                                                    THEN "raised" ELSE "returned"]
    /\ UNCHANGED <<components, council, providers, current_prompt, backends>>

\* The synthesis call completes: consult returns its result or the exception
\* propagates (council.py:140-149, 336-347).
SynthesisDone(c) ==
    /\ calls[c].pc = "synthesis"
    /\ \E b \in Backends(Last(log[c])) :
       LET requests == Completed(log[c], Len(log[c]), b)
           result == ConsultResult(calls[c].prompt, calls[c].responses,
                                   calls[c].critiques,
                                   SynthesizeAnswer(Last(requests).out))
       IN  /\ cache' = CacheAfter(cache, Last(log[c]), b)
           /\ log' = [log EXCEPT ![c] = requests]
           /\ calls' = [calls EXCEPT ![c].result = result,
                                     ![c].pc = IF result.kind = "raise"
                                               THEN "raised" ELSE "returned"]
    /\ UNCHANGED <<components, council, providers, current_prompt, backends>>

---------------------------------------------------------------------------
(* sequential_refine (council.py:151-266).                                 *)

\* (variant: the number of providers is checked after the first baseline call
\* has been issued)
sequential_refine_LateCheck(c, prompt) ==
    /\ MayStart(c)
    /\ current_prompt' = prompt
    /\ IF TooFewProviders(providers)
       THEN /\ calls' = [calls EXCEPT ![c] =
                           [IdleCall EXCEPT !.op = "sequential_refine",
                                            !.pc = "raised", !.prompt = prompt,
                                            !.result = Raised("ValueError", S_NeedTwo)]]
            /\ log' = [log EXCEPT ![c] =
                          <<Request(providers[1], BaselinePrompt(prompt),
                                    BaselineTimeout(providers[1]), cache)>>]
       ELSE /\ calls' = [calls EXCEPT ![c] =
                           [IdleCall EXCEPT !.op = "sequential_refine",
                                            !.pc = "baselines", !.prompt = prompt]]
            /\ log' = [log EXCEPT ![c] =
                          [i \in 1..2 |->
                              Request(providers[i], BaselinePrompt(prompt),
                                      BaselineTimeout(providers[i]), cache)]]
    /\ UNCHANGED <<components, council, providers, cache, backends>>

\* sequential_refine up to the await of the gather of both baselines
\* (council.py:153-192); with fewer than two providers it raises before any
\* provider is called
sequential_refine(c, prompt) ==
    /\ MayStart(c)
    /\ current_prompt' = prompt
    /\ IF TooFewProviders(providers)
       THEN /\ calls' = [calls EXCEPT ![c] =
                           [IdleCall EXCEPT !.op = "sequential_refine",
                                            !.pc = "raised", !.prompt = prompt,
                                            !.result = Raised("ValueError", S_NeedTwo)]]
            /\ UNCHANGED log
       ELSE /\ calls' = [calls EXCEPT ![c] =
                           [IdleCall EXCEPT !.op = "sequential_refine",
                                            !.pc = "baselines", !.prompt = prompt]]
            /\ log' = [log EXCEPT ![c] =
                          [i \in 1..2 |->
                              Request(providers[i], BaselinePrompt(prompt),
                                      BaselineTimeout(providers[i]), cache)]]
    /\ UNCHANGED <<components, council, providers, cache, backends>>

\* (variant: the refine call is made to the first provider)
RefineRequest_ToFirst(prompt, requests, c) ==
    Request(providers[1],
            RefinePrompt(prompt, <<providers[1], requests[1].out.v>>,
                         <<providers[2], requests[2].out.v>>),
            RefineTimeout(providers[1]), c)

\* The refine call (council.py:201-230), to the second provider.
RefineRequest(prompt, requests, c) ==
    Request(providers[2],
            RefinePrompt(prompt, <<providers[1], requests[1].out.v>>,
                         <<providers[2], requests[2].out.v>>),
            RefineTimeout(providers[2]), c)

\* One of the two baseline calls completes. gather (council.py:189-192) is
\* called without return_exceptions: the first exception of either call
\* propagates at once and ends sequential_refine, the other call is left
\* running. With both baselines in, the refine call is issued.
BaselineDone(c, i) ==
    /\ calls[c].op = "sequential_refine"
    /\ calls[c].pc \in {"baselines", "raised"}
    /\ i \in 1..2
    /\ Len(log[c]) >= 2
    /\ log[c][i].out = Pending
    /\ \E b \in Backends(log[c][i]) :
       LET requests == Completed(log[c], i, b)
           cache1 == CacheAfter(cache, log[c][i], b)
           response == GetIndependentResponse(providers[i], requests[i].out)
       IN  /\ cache' = cache1
           /\ CASE calls[c].pc = "raised" ->
                     /\ log' = [log EXCEPT ![c] = requests]
                     /\ UNCHANGED calls
                [] calls[c].pc = "baselines" /\ response.kind = "raise" ->
                     /\ log' = [log EXCEPT ![c] = requests]
                     /\ calls' = [calls EXCEPT ![c].pc = "raised",
                                               ![c].result = response]
                [] calls[c].pc = "baselines" /\ response.kind # "raise"
                   /\ requests[3 - i].out = Pending ->
                     /\ log' = [log EXCEPT ![c] = requests]
                     /\ UNCHANGED calls
                [] OTHER ->
                     /\ log' = [log EXCEPT ![c] =
                                   Append(requests,
                                          RefineRequest(calls[c].prompt, requests, cache1))]
                     /\ calls' = [calls EXCEPT ![c].pc = "refine"]
    /\ UNCHANGED <<components, council, providers, current_prompt, backends>>

\* The refine call completes: its output is parsed and the result returned,
\* or the exception propagates (council.py:226-266).
RefineDone(c) ==
    /\ calls[c].pc = "refine"
    /\ \E b \in Backends(Last(log[c])) :
       LET requests == Completed(log[c], 3, b)
           result == SequentialRefineResult(
                         calls[c].prompt,
                         <<providers[1], requests[1].out.v>>,
                         <<providers[2], requests[2].out.v>>,
                         RefineCall(providers[2], requests[3].out))
       IN  /\ cache' = CacheAfter(cache, log[c][3], b)
           /\ log' = [log EXCEPT ![c] = requests]
           /\ calls' = [calls EXCEPT ![c].result = result,
                                     ![c].pc = IF result.kind = "raise"
                                               THEN "raised" ELSE "returned"]
    /\ UNCHANGED <<components, council, providers, current_prompt, backends>>

---------------------------------------------------------------------------
(* summarize (council.py:268-307).                                         *)

\* (variant: the summary is asked of the last provider of the list)
summarize_LastProvider(c, prompt) ==
    /\ MayStart(c)
    /\ current_prompt' = prompt
    /\ calls' = [calls EXCEPT ![c] =
                    [IdleCall EXCEPT !.op = "summarize", !.pc = "summary",
                                     !.prompt = prompt]]
    /\ log' = [log EXCEPT ![c] =
                  <<Request(providers[Len(providers)], SummaryPrompt(prompt),
                            API_TIMEOUT, cache)>>]
    /\ UNCHANGED <<components, council, providers, cache, backends>>

\* summarize up to the await of its call to the first provider
summarize(c, prompt) ==
    /\ MayStart(c)
    /\ current_prompt' = prompt
    /\ calls' = [calls EXCEPT ![c] =
                    [IdleCall EXCEPT !.op = "summarize", !.pc = "summary",
                                     !.prompt = prompt]]
    /\ log' = [log EXCEPT ![c] =
                  <<Request(providers[1], SummaryPrompt(prompt), API_TIMEOUT, cache)>>]
    /\ UNCHANGED <<components, council, providers, cache, backends>>

\* The call completes: summarize returns or raises.
SummaryDone(c) ==
    /\ calls[c].pc = "summary"
    /\ \E b \in Backends(Last(log[c])) :
       LET requests == Completed(log[c], 1, b)
           result == SummarizeResult(calls[c].prompt, requests[1].out)
       IN  /\ cache' = CacheAfter(cache, log[c][1], b)
           /\ log' = [log EXCEPT ![c] = requests]
           /\ calls' = [calls EXCEPT ![c].result = result,
                                     ![c].pc = IF result.kind = "raise"
                                               THEN "raised" ELSE "returned"]
    /\ UNCHANGED <<components, council, providers, current_prompt, backends>>

---------------------------------------------------------------------------
(* The specification.                                                      *)

Next ==
    \E c \in Calls :
        \/ \E prompt \in Questions : consult(c, prompt)
        \/ \E prompt \in Questions : sequential_refine(c, prompt)
        \/ \E prompt \in Questions : summarize(c, prompt)
        \/ \E i \in 1..Len(providers) : QueryAllDone(c, i)
        \/ CritiqueDone(c)
        \/ SynthesisDone(c)
        \/ \E i \in 1..2 : BaselineDone(c, i)
        \/ RefineDone(c)
        \/ SummaryDone(c)

\* One operation called on a new orchestrator.
Spec == Init /\ [][Next]_vars

\* Several operations called on one orchestrator, as concurrent requests of
\* the service do.
SpecConcurrent == InitConcurrent /\ [][Next]_vars

\* The orchestrator is constructed from the environment and then called. The
\* lists the constructor can build hold one provider, so sequential_refine
\* never gets to its provider calls.
NextConstruct ==
    \/ LLMCouncilInit
    \/ \E c \in Calls :
        \/ \E prompt \in Questions : consult(c, prompt)
        \/ \E prompt \in Questions : sequential_refine(c, prompt)
        \/ \E prompt \in Questions : summarize(c, prompt)
        \/ \E i \in 1..Len(providers) : QueryAllDone(c, i)
        \/ CritiqueDone(c)
        \/ SynthesisDone(c)
        \/ SummaryDone(c)

SpecConstruct == InitConstruct /\ [][NextConstruct]_vars

---------------------------------------------------------------------------
(* Progress. Every provider call of an operation is awaited under          *)
(* asyncio.wait_for: a call in flight returns, raises or is cut off by its *)
(* timeout, so each step that completes a call is taken once it can be.    *)
(* Nothing obliges a caller to start an operation.                         *)

CallsComplete ==
    \A c \in Calls :
        /\ \A i \in 1..MaxProviders : WF_vars(QueryAllDone(c, i))
        /\ WF_vars(CritiqueDone(c))
        /\ WF_vars(SynthesisDone(c))
        /\ \A i \in 1..2 : WF_vars(BaselineDone(c, i))
        /\ WF_vars(RefineDone(c))
        /\ WF_vars(SummaryDone(c))

\* One operation called on a new orchestrator, against backends that may
\* answer, fail or be slow.
InitLive ==
    /\ Constructed
    /\ providers \in ProviderLists
    /\ backends = "unreliable"

SpecLive == InitLive /\ [][Next]_vars /\ CallsComplete

---------------------------------------------------------------------------
(* Vote mode: the scorer applied to a response set.                        *)

\* The texts the providers may have answered with: none, whitespace, one
\* word in either case, two words in either order and spacing, another word.
VoteTexts ==
    {<<>>, <<" ">>, <<"a">>, <<"A">>, <<"a", " ", "b">>, <<"B", " ", " ", "a">>,
     <<"c">>}

\* The provider lists whose responses are scored
VoterLists ==
    {SubSeq(<<"Groq", "Ollama", "Mistral", "Custom">>, 1, n) : n \in 1..MaxVoters}

\* The response sets of a provider list, in registration order
ResponseSets(ps) ==
    {[i \in 1..Len(ps) |-> [name |-> ps[i], text |-> texts[i]]] :
        texts \in [1..Len(ps) -> VoteTexts]}

\* A response set is in, whatever the providers answered.
InitVote ==
    /\ council = [state |-> "assigned"]
    /\ providers \in VoterLists
    /\ current_prompt = ""
    /\ cache = <<>>
    /\ calls = [c \in Calls |-> IdleCall]
    /\ log = [c \in Calls |-> <<>>]
    /\ backends = "reliable"
    /\ scorer \in {[stage |-> "responses", responses |-> r] :
                      r \in ResponseSets(providers)}
    /\ QueriesIdle /\ SimpleCacheIdle /\ MemoryIdle

\* score(responses)
ScoreResponses ==
    /\ scorer.stage = "responses"
    /\ scorer' = [stage |-> "scored", responses |-> scorer.responses,
                  scores |-> Score(scorer.responses)]
    /\ UNCHANGED <<orchestrator, queries, simple_cache, memory>>

\* selectBest(responses, scores)
SelectBestResponse ==
    /\ scorer.stage = "scored"
    /\ scorer' = [stage |-> "selected", responses |-> scorer.responses,
                  scores |-> scorer.scores,
                  selected |-> SelectBest(scorer.responses, scorer.scores)]
    /\ UNCHANGED <<orchestrator, queries, simple_cache, memory>>

NextVote == ScoreResponses \/ SelectBestResponse

SpecVote == InitVote /\ [][NextVote]_vars

---------------------------------------------------------------------------
(* Provider queries one after the other, as the chat page makes them       *)
(* (app.py:594-600), against backends that answer a prompt the same way    *)
(* every time.                                                             *)

\* The prompts queried: plain text, and text that holds the separator of the
\* cache key.
QueryPrompts == {<<"a">>, <<":", "a">>}

\* The providers queried.
QueryProviders == <<"Groq", "Mistral", "Ollama", "Custom">>

\* How the backends answer a prompt: with a text of their own for it, with
\* the empty text, or by failing.
Behaviours == {"echo", "empty", "fail"}

\* What the backend of the provider does with the prompt, the same every
\* time.
Answer(answers, name, prompt) ==
    CASE answers[prompt] = "echo" ->
            [lat |-> 30, ok |-> TRUE, text |-> NameStr(name) \o <<" ">> \o prompt]
      [] answers[prompt] = "empty" -> [lat |-> 30, ok |-> TRUE, text |-> <<>>]
      [] answers[prompt] = "fail" -> [lat |-> 30, ok |-> FALSE, text |-> Boom]

\* No query made yet, the cache empty.
InitQuery ==
    /\ council = [state |-> "assigned"]
    /\ providers = QueryProviders
    /\ current_prompt = ""
    /\ cache = <<>>
    /\ calls = [c \in Calls |-> IdleCall]
    /\ log = [c \in Calls |-> <<>>]
    /\ backends = "deterministic"
    /\ queries \in {[stage |-> "open", answers |-> f, count |-> 0, sets |-> {},
                     contacted |-> {}, last |-> [provider |-> "none"]] :
                       f \in [QueryPrompts -> Behaviours]}
    /\ ScorerIdle /\ SimpleCacheIdle /\ MemoryIdle

\* provider.query(prompt) by asyncio.run (app.py:600). sets records the calls
\* of cache.set made so far, contacted the backend calls made so far (the
\* provider, the prompt and what the backend did), last the query just made.
ProviderQueryRun(i, prompt) ==
    /\ queries.stage = "open"
    /\ queries.count < MaxQueries
    /\ LET name == providers[i]
           b == Answer(queries.answers, name, prompt)
           run == Query(cache, name, prompt, b)
       IN  /\ cache' = run.cache
           /\ queries' =
                [queries EXCEPT
                    !.count = @ + 1,
                    !.sets = IF run.cache # cache
                             THEN @ \cup {[key |-> GetKey(prompt, name),
                                           prompt |-> prompt, provider |-> name,
                                           response |-> run.out.v]}
                             ELSE @,
                    !.contacted = IF ~run.hit
                                  THEN @ \cup {[provider |-> name,
                                                prompt |-> prompt, b |-> b]}
                                  ELSE @,
                    !.last = [provider |-> name, prompt |-> prompt,
                              hit |-> run.hit, out |-> run.out,
                              again |-> \E w \in queries.contacted :
                                          w.provider = name /\ w.prompt = prompt]]
    /\ UNCHANGED <<council, providers, current_prompt, calls, log, backends,
                   scorer, simple_cache, memory>>

NextQuery ==
    \E i \in 1..Len(providers), prompt \in QueryPrompts : ProviderQueryRun(i, prompt)

SpecQuery == InitQuery /\ [][NextQuery]_vars

---------------------------------------------------------------------------
(* SimpleCache (utils/cache.py:5-36): an instance of some capacity and the *)
(* calls of set, get and clear made on it.                                 *)

\* The pairs and responses the calls are made with.
CacheProviders == {"Ollama", "Custom"}

CacheResponses == {TextX, <<>>}

NoCall == [op |-> "none"]

\* SimpleCache(max_size) (cache.py:8-10), of a capacity of at least one.
InitCache ==
    /\ council = [state |-> "assigned"]
    /\ providers = QueryProviders
    /\ current_prompt = ""
    /\ cache = <<>>
    /\ calls = [c \in Calls |-> IdleCall]
    /\ log = [c \in Calls |-> <<>>]
    /\ backends = "reliable"
    /\ simple_cache \in {[stage |-> "open", max_size |-> n, cache |-> <<>>,
                          was |-> <<>>, before |-> NoCall, last |-> NoCall] :
                            n \in 1..MaxCapacity}
    /\ ScorerIdle /\ QueriesIdle /\ MemoryIdle

\* set(prompt, provider, response) (cache.py:22-32); last keeps the call and
\* the number of entries it found, before the call made ahead of it, was the
\* dict as the last call found it
SimpleCacheSetCall(prompt, provider, response) ==
    /\ simple_cache.stage = "open"
    /\ simple_cache' =
          [simple_cache EXCEPT
              !.cache = SimpleCacheSet(simple_cache.cache, simple_cache.max_size,
                                       prompt, provider, response),
              !.was = simple_cache.cache,
              !.before = simple_cache.last,
              !.last = [op |-> "set", prompt |-> prompt, provider |-> provider,
                        response |-> response, found |-> Len(simple_cache.cache)]]
    /\ UNCHANGED <<orchestrator, scorer, queries, memory>>

\* get(prompt, provider) (cache.py:17-20); last keeps the call and what it
\* returned
SimpleCacheGetCall(prompt, provider) ==
    /\ simple_cache.stage = "open"
    /\ simple_cache' =
          [simple_cache EXCEPT
              !.was = simple_cache.cache,
              !.before = simple_cache.last,
              !.last = [op |-> "get", prompt |-> prompt, provider |-> provider,
                        ret |-> CacheGet(simple_cache.cache, prompt, provider)]]
    /\ UNCHANGED <<orchestrator, scorer, queries, memory>>

\* clear() (cache.py:34-36)
SimpleCacheClearCall ==
    /\ simple_cache.stage = "open"
    /\ simple_cache' = [simple_cache EXCEPT !.cache = <<>>,
                                            !.was = simple_cache.cache,
                                            !.before = simple_cache.last,
                                            !.last = [op |-> "clear"]]
    /\ UNCHANGED <<orchestrator, scorer, queries, memory>>

NextCache ==
    \/ \E prompt \in QueryPrompts, provider \in CacheProviders,
          response \in CacheResponses : SimpleCacheSetCall(prompt, provider, response)
    \/ \E prompt \in QueryPrompts, provider \in CacheProviders :
          SimpleCacheGetCall(prompt, provider)
    \/ SimpleCacheClearCall

SpecCache == InitCache /\ [][NextCache]_vars

---------------------------------------------------------------------------
(* ConversationMemory (utils/memory.py:12-26): an instance of some limit   *)
(* and the messages added to it.                                           *)

Roles == {"user", "assistant"}

\* Contents of an estimated zero, zero, one and two tokens.
Contents == {<<"h", "i">>, <<>>, <<"a", "b", "c", "d">>,
             <<"a", "b", "c", "d", "e", "f", "g", "h", "i">>}

\* lst[-k:] for k >= 0: the last k elements, the whole list when it is
\* shorter, and the whole list for k = 0 as well, -0 being 0
SliceLast(lst, k) ==
    IF k = 0 \/ k >= Len(lst) THEN lst
    ELSE SubSeq(lst, Len(lst) - k + 1, Len(lst))

\* add_message(role, content) on the history (memory.py:19-26); the
\* timestamp is the number of the message, later ones being larger
AddMessage(history, max_history, message) ==
    LET appended == Append(history, message)
    IN  IF Len(appended) > max_history
        THEN SliceLast(appended, max_history)
        ELSE appended

\* get_context's loop (memory.py:34-40) about to look at history[i], the
\* messages after it taken: the estimate of a message is len(content) // 4,
\* the first message that would pass the budget ends the loop
RECURSIVE GetContextLoop_NoTotal(_, _, _, _, _)
RECURSIVE GetContextLoop(_, _, _, _, _)

\* (variant: each message is tested against the budget on its own)
GetContextLoop_NoTotal(history, i, total_tokens, max_tokens, context) ==
    IF i = 0 THEN context
    ELSE LET msg_tokens == Len(history[i].content) \div 4
         IN  IF msg_tokens > max_tokens THEN context
             ELSE GetContextLoop_NoTotal(history, i - 1, total_tokens + msg_tokens,
                      max_tokens,
                      <<[role |-> history[i].role,
                         content |-> history[i].content]>> \o context)

GetContextLoop(history, i, total_tokens, max_tokens, context) ==
    IF i = 0 THEN context
    ELSE LET msg_tokens == Len(history[i].content) \div 4
         IN  IF total_tokens + msg_tokens > max_tokens THEN context
             ELSE GetContextLoop(history, i - 1, total_tokens + msg_tokens,
                      max_tokens,
                      <<[role |-> history[i].role,
                         content |-> history[i].content]>> \o context)

\* get_context(max_tokens) (memory.py:28-42): dicts of role and content
GetContext(history, max_tokens) ==
    GetContextLoop(history, Len(history), 0, max_tokens, <<>>)

\* ConversationMemory(max_history) (memory.py:15-17); added keeps every
\* message ever added, in order, last the get_context call made since
InitMemory ==
    /\ council = [state |-> "assigned"]
    /\ providers = QueryProviders
    /\ current_prompt = ""
    /\ cache = <<>>
    /\ calls = [c \in Calls |-> IdleCall]
    /\ log = [c \in Calls |-> <<>>]
    /\ backends = "reliable"
    /\ memory \in {[stage |-> "open", max_history |-> n, history |-> <<>>,
                    added |-> <<>>, last |-> NoCall] : n \in 0..MaxHistory}
    /\ ScorerIdle /\ QueriesIdle /\ SimpleCacheIdle

add_message(role, content) ==
    /\ memory.stage = "open"
    /\ Len(memory.added) < MaxMessages
    /\ LET message == [role |-> role, content |-> content,
                       timestamp |-> Len(memory.added) + 1]
       IN  memory' = [memory EXCEPT
                         !.history = AddMessage(memory.history,
                                                memory.max_history, message),
                         !.added = Append(memory.added, message),
                         !.last = NoCall]
    /\ UNCHANGED <<orchestrator, scorer, queries, simple_cache>>

\* get_context(max_tokens) called with a budget that is not negative
get_context(max_tokens) ==
    /\ memory.stage = "open"
    /\ memory' = [memory EXCEPT
                     !.last = [op |-> "get_context", max_tokens |-> max_tokens,
                               ret |-> GetContext(memory.history, max_tokens)]]
    /\ UNCHANGED <<orchestrator, scorer, queries, simple_cache>>

NextMemory ==
    \/ \E role \in Roles, content \in Contents : add_message(role, content)
    \/ \E max_tokens \in 0..MaxTokens : get_context(max_tokens)

SpecMemory == InitMemory /\ [][NextMemory]_vars

---------------------------------------------------------------------------
(* Properties.                                                             *)

Names == {providers[i] : i \in 1..Len(providers)}

NumProviders == Len(providers)

\* Call c is a consult whose query_all has returned.
QueryAllReturned(c) ==
    calls[c].op = "consult" /\ calls[c].pc \notin {"idle", "query_all"}

\* Call c is a sequential_refine whose refine call has an outcome.
RefineAnswered(c) ==
    /\ calls[c].op = "sequential_refine"
    /\ Len(log[c]) = 3
    /\ log[c][3].out # Pending

\* C1: the map query_all returns has exactly one entry per registered
\* provider: its keys are the provider names, none missing and none extra,
\* whatever each provider's call did.
C1_QueryAllKeys ==
    \A c \in Calls :
        QueryAllReturned(c) =>
            /\ DOMAIN calls[c].responses = Names
            /\ Cardinality(DOMAIN calls[c].responses) = NumProviders

\* query_all has returned although one call timed out and another raised
C1_Witness ==
    \E c \in Calls :
        /\ QueryAllReturned(c)
        /\ \E i, j \in 1..NumProviders :
              log[c][i].out.k = "timeout" /\ log[c][j].out.k = "raise"

\* C2: query_all returns whichever of its calls time out or raise (a consult
\* fails only at its synthesis call); the slot of a provider that timed out
\* holds an error marker naming the timeout, the slot of one that raised holds
\* an error marker with the exception's text, and every other slot holds
\* exactly the text the provider returned.
C2_FailureIsolation ==
    \A c \in Calls :
        /\ calls[c].op = "consult" /\ calls[c].pc = "raised"
              => Len(log[c]) = 2 * NumProviders + 1
        /\ calls[c].pc = "query_all"
              => \E i \in 1..NumProviders : log[c][i].out = Pending
        /\ QueryAllReturned(c) =>
              \A i \in 1..NumProviders :
                  LET out == log[c][i].out
                      slot == calls[c].responses[providers[i]]
                  IN  /\ out.k = "ret" => slot = out.v
                      /\ out.k = "timeout" =>
                            /\ OccursAt(slot, <<"E","r","r","o","r",":">>, 1)
                            /\ Contains(slot, <<"T","i","m","e","o","u","t">>)
                      /\ out.k = "raise" => slot = S_ErrorColon \o out.v
                      /\ out.k # "pending"

\* query_all has returned with one provider timed out and another answered
C2_Witness ==
    \E c \in Calls :
        /\ QueryAllReturned(c)
        /\ \E i, j \in 1..NumProviders :
              /\ log[c][i].out.k = "timeout"
              /\ log[c][j].out = Ret(TextX)
              /\ calls[c].responses[providers[j]] = TextX

\* C3: every critique prompt and every synthesis prompt a consult call issues
\* carries the question of that call, whatever other calls run on the
\* orchestrator meanwhile.
C3_QuestionScopedToCall ==
    \A c \in Calls :
        calls[c].op = "consult" =>
            \A k \in 1..Len(log[c]) :
                log[c][k].prompt.template \in {"critique", "synthesis"}
                    => log[c][k].prompt.question = calls[c].prompt

\* C4: when the synthesis call of consult times out or raises, consult ends
\* with an error and returns no result; it returns only when the synthesis
\* call returned.
C4_SynthesisFailureFatal ==
    \A c \in Calls :
        calls[c].op = "consult" /\ Len(log[c]) = 2 * NumProviders + 1 =>
            LET out == Last(log[c]).out
            IN  /\ out.k \in {"timeout", "raise"} =>
                      /\ calls[c].pc = "raised"
                      /\ calls[c].result.kind = "raise"
                      /\ calls[c].result.type = "RuntimeError"
                /\ calls[c].pc = "returned" => out.k = "ret"
                /\ calls[c].pc = "returned" <=> calls[c].result.kind = "return"

\* the synthesis call raised after responses and critiques had been collected
C4_Witness ==
    \E c \in Calls :
        /\ calls[c].op = "consult"
        /\ calls[c].pc = "raised"
        /\ Last(log[c]).prompt.template = "synthesis"
        /\ Last(log[c]).out.k = "raise"
        /\ DOMAIN calls[c].critiques = Names

\* C5: sequential_refine on an orchestrator with exactly one provider fails
\* with the error that at least two providers are required, and has issued no
\* provider call.
C5_OneProviderFailsFast ==
    \A c \in Calls :
        calls[c].op = "sequential_refine" /\ NumProviders = 1 =>
            /\ calls[c].pc = "raised"
            /\ calls[c].result.kind = "raise"
            /\ calls[c].result.type = "ValueError"
            /\ Contains(calls[c].result.msg,
                        <<"a","t"," ","l","e","a","s","t"," ","2"," ",
                          "p","r","o","v","i","d","e","r","s">>)
            /\ log[c] = <<>>

\* sequential_refine was called with one provider registered
C5_Witness ==
    \E c \in Calls :
        /\ calls[c].op = "sequential_refine"
        /\ NumProviders = 1
        /\ calls[c].pc = "raised"

\* Whitespace around a section of a refiner's answer, and the texts the
\* sections hold.
Paddings == {<<>>, <<"\n">>, <<" ">>}

Cores == {Foo, Bar, XandY}

\* The answers 'ANALYSIS:' x 'OPTIMIZED RESPONSE:' y, with any whitespace
\* around x and around y.
CompliantAnswers ==
    {[text |-> ANALYSIS_MARKER \o Pad(w[1], x, w[2])
               \o OPTIMIZED_MARKER \o Pad(w[3], y, w[4]),
      x |-> x, y |-> y] : w \in [1..4 -> Paddings], x \in Cores, y \in Cores}

\* The result sequential_refine returned in call c.
RefineResult(c) == calls[c].result.value

\* The refiner's answer in call c lacks one of the two markers the parse
\* looks for.
LacksAMarker(c) ==
    \/ ~Contains(log[c][3].out.v, ANALYSIS_MARKER)
    \/ ~Contains(log[c][3].out.v, OPTIMIZED_MARKER)

\* C6: when the refiner answers 'ANALYSIS:' x 'OPTIMIZED RESPONSE:' y, the
\* result's analysis is x and its final_answer is y, each without the
\* whitespace around it, and independent_responses maps the first and the
\* second provider to the baselines they returned.
C6_CompliantOutputParsed ==
    \A c \in Calls :
        RefineAnswered(c) /\ log[c][3].out.k = "ret" =>
            \A a \in CompliantAnswers :
                log[c][3].out.v = a.text
                =>  /\ calls[c].pc = "returned"
                    /\ RefineResult(c).analysis = a.x
                    /\ RefineResult(c).final_answer = a.y
                    /\ DOMAIN RefineResult(c).independent_responses
                          = {providers[1], providers[2]}
                    /\ \A i \in 1..2 :
                          RefineResult(c).independent_responses[providers[i]]
                              = log[c][i].out.v

\* the refiner answered "ANALYSIS:\nfoo\nOPTIMIZED RESPONSE: X and Y " and
\* sequential_refine returned
C6_Witness ==
    \E c \in Calls :
        /\ RefineAnswered(c)
        /\ log[c][3].out = Ret(CompliantOutput)
        /\ calls[c].pc = "returned"
        /\ RefineResult(c).final_answer = XandY

\* C7, as claimed: the parse accepts 'IMPROVED RESPONSE:' as the second
\* marker: the answer "ANALYSIS:\nfoo\nIMPROVED RESPONSE:\nbar" gives the
\* analysis "foo" and the response "bar".
C7_ImprovedMarkerParsed ==
    \A c \in Calls :
        RefineAnswered(c) /\ log[c][3].out = Ret(ImprovedExample) =>
            /\ RefineResult(c).analysis = Foo
            /\ RefineResult(c).final_answer = Bar

\* C7, amended: the parse accepts only 'OPTIMIZED RESPONSE:' as the second
\* marker: "ANALYSIS:\nfoo\nOPTIMIZED RESPONSE:\nbar" gives the analysis "foo"
\* and the response "bar", while "ANALYSIS:\nfoo\nIMPROVED RESPONSE:\nbar" is
\* returned whole as the response, under the fallback analysis.
C7_OnlyOptimizedMarkerParsed ==
    \A c \in Calls :
        /\ RefineAnswered(c) /\ log[c][3].out = Ret(OptimizedExample) =>
              /\ calls[c].pc = "returned"
              /\ RefineResult(c).analysis = Foo
              /\ RefineResult(c).final_answer = Bar
        /\ RefineAnswered(c) /\ log[c][3].out = Ret(ImprovedExample) =>
              /\ calls[c].pc = "returned"
              /\ RefineResult(c).analysis # Foo
              /\ RefineResult(c).analysis = FALLBACK_ANALYSIS
              /\ RefineResult(c).final_answer = ImprovedExample

\* the refiner answered "ANALYSIS:\nfoo\nIMPROVED RESPONSE:\nbar" and
\* sequential_refine returned
C7_Witness ==
    \E c \in Calls :
        /\ RefineAnswered(c)
        /\ log[c][3].out = Ret(ImprovedExample)
        /\ calls[c].pc = "returned"

\* C8: when the refiner's answer lacks either marker, sequential_refine
\* returns: final_answer is the whole answer unchanged, and analysis is the
\* fallback text, the same for every answer.
C8_MissingMarkerFallback ==
    \A c \in Calls :
        RefineAnswered(c) /\ log[c][3].out.k = "ret" /\ LacksAMarker(c) =>
            /\ calls[c].pc = "returned"
            /\ RefineResult(c).final_answer = log[c][3].out.v
            /\ RefineResult(c).analysis = FALLBACK_ANALYSIS

\* the refiner's answer holds 'ANALYSIS:' and whitespace but not the second
\* marker, and sequential_refine returned it whole
C8_Witness ==
    \E c \in Calls :
        /\ RefineAnswered(c)
        /\ calls[c].pc = "returned"
        /\ Contains(log[c][3].out.v, ANALYSIS_MARKER)
        /\ ~Contains(log[c][3].out.v, OPTIMIZED_MARKER)
        /\ Strip(log[c][3].out.v) # log[c][3].out.v
        /\ RefineResult(c).final_answer = log[c][3].out.v

\* C9, as claimed: the analysis produced when a marker is missing is exactly
\* "response analyzed and improved based on identified gaps".
C9_FallbackTextAsSpecified ==
    \A c \in Calls :
        RefineAnswered(c) /\ calls[c].pc = "returned" /\ LacksAMarker(c) =>
            RefineResult(c).analysis =
                <<"r","e","s","p","o","n","s","e"," ","a","n","a","l","y","z","e","d"," ","a","n",
                  "d"," ","i","m","p","r","o","v","e","d"," ","b","a","s","e","d"," ","o","n"," ",
                  "i","d","e","n","t","i","f","i","e","d"," ","g","a","p","s">>

\* C9, amended: the analysis produced when a marker is missing is exactly
\* "Response analyzed and optimized by combining information from both
\* providers."
C9_FallbackTextOfCode ==
    \A c \in Calls :
        RefineAnswered(c) /\ calls[c].pc = "returned" /\ LacksAMarker(c) =>
            RefineResult(c).analysis =
                <<"R","e","s","p","o","n","s","e"," ","a","n","a","l","y","z","e","d"," ","a","n",
                  "d"," ","o","p","t","i","m","i","z","e","d"," ","b","y"," ","c","o","m","b","i",
                  "n","i","n","g"," ","i","n","f","o","r","m","a","t","i","o","n"," ","f","r","o",
                  "m"," ","b","o","t","h"," ","p","r","o","v","i","d","e","r","s",".">>

\* sequential_refine returned an answer without any marker
C9_Witness ==
    \E c \in Calls :
        /\ RefineAnswered(c)
        /\ calls[c].pc = "returned"
        /\ log[c][3].out.v = Pad(<<"\n">>, Bar, <<>>)
        /\ RefineResult(c).analysis # <<>>

\* C10: when the refine call times out or raises, sequential_refine ends with
\* an error and returns nothing, the baselines included; it returns only when
\* the refine call returned.
C10_RefinerFailureFatal ==
    \A c \in Calls :
        calls[c].op = "sequential_refine" =>
            /\ RefineAnswered(c) /\ log[c][3].out.k \in {"timeout", "raise"} =>
                  /\ calls[c].pc = "raised"
                  /\ calls[c].result.kind = "raise"
                  /\ calls[c].result.type = "RuntimeError"
            /\ calls[c].pc = "returned" =>
                  /\ RefineAnswered(c)
                  /\ log[c][3].out.k = "ret"
            /\ calls[c].pc = "returned" <=> calls[c].result.kind = "return"

\* both baselines were returned and the refine call timed out
C10_Witness ==
    \E c \in Calls :
        /\ RefineAnswered(c)
        /\ log[c][1].out.k = "ret" /\ log[c][2].out.k = "ret"
        /\ log[c][3].out.k = "timeout"
        /\ calls[c].pc = "raised"

---------------------------------------------------------------------------
(* The baseline step of sequential_refine.                                 *)

\* Call c is a sequential_refine that issued its baseline calls.
BaselinesIssued(c) ==
    calls[c].op = "sequential_refine" /\ Len(log[c]) >= 2

\* C11: in the baseline step of sequential_refine both calls are awaited: a
\* baseline call that times out or raises does not end the operation with
\* its error, and the operation does not end while the other baseline call
\* is still running.
C11_BaselineFailureIsolated ==
    \A c \in Calls :
        BaselinesIssued(c) =>
            /\ (\E i \in 1..2 : log[c][i].out.k \in {"timeout", "raise"})
               /\ Len(log[c]) = 2
                  => calls[c].result.kind # "raise"
            /\ calls[c].pc \in {"raised", "returned"}
                  => \A i \in 1..2 : log[c][i].out # Pending

---------------------------------------------------------------------------
(* summarize.                                                              *)

\* C13: summarize issues one provider call, to the first provider of the
\* list, and none to any other; when the call returns, the result's summary
\* is the returned text; when it times out or raises, summarize ends with an
\* error and returns no result.
C13_SummarizeOneCall ==
    \A c \in Calls :
        calls[c].op = "summarize" =>
            LET out == log[c][1].out
            IN  /\ Len(log[c]) = 1
                /\ log[c][1].provider = providers[1]
                /\ log[c][1].prompt = SummaryPrompt(calls[c].prompt)
                /\ out = Pending <=> calls[c].pc = "summary"
                /\ out.k = "ret" =>
                      /\ calls[c].pc = "returned"
                      /\ calls[c].result.value.summary = out.v
                      /\ calls[c].result.value.question = calls[c].prompt
                /\ out.k \in {"timeout", "raise"} =>
                      /\ calls[c].pc = "raised"
                      /\ calls[c].result.kind = "raise"
                /\ calls[c].result.kind = "return" => out.k = "ret"

\* summarize returned the first provider's text on a two-provider list
C13_Witness ==
    \E c \in Calls :
        /\ calls[c].op = "summarize"
        /\ NumProviders = 2
        /\ calls[c].pc = "returned"
        /\ log[c][1].provider = providers[1]
        /\ calls[c].result.value.summary = TextX

---------------------------------------------------------------------------
(* Construction.                                                           *)

\* C14: LLMCouncil() fails with an error exactly when no provider could be
\* initialised; a constructed orchestrator has at least one provider, and no
\* operation ever runs without an orchestrator or on an empty provider list.
C14_ConstructionNeedsProvider ==
    /\ council.state = "failed" =>
          providers = <<>> /\ InitializeProviders(council.env) = <<>>
    /\ council.state = "constructed" =>
          providers # <<>> /\ providers = InitializeProviders(council.env)
    /\ \A c \in Calls :
          calls[c].op # "none" =>
              council.state = "constructed" /\ Len(providers) >= 1

\* construction failed although GROQ_API_KEY is set and USE_OLLAMA is on,
\* and no operation has run
C14_Witness ==
    /\ council.state = "failed"
    /\ council.env.GROQ_API_KEY
    /\ UseOllama(council.env)
    /\ \A c \in Calls : calls[c].op = "none"

---------------------------------------------------------------------------
(* How the operations end.                                                 *)

\* The keys of the dict each operation returns (council.py:342-347, 258-266,
\* 304-307).
ResultFields(op) ==
    CASE op = "consult" -> {"question", "responses", "critiques", "final_answer"}
      [] op = "sequential_refine" ->
            {"question", "independent_responses", "analysis", "final_answer"}
      [] op = "summarize" -> {"question", "summary"}

\* The call of call c's fatal stage (synthesis, refinement, summary) met a
\* backend that failed or was cut off by the timeout.
FatalStageFailed(c) ==
    \E k \in 1..Len(log[c]) :
        /\ log[c][k].prompt.template \in {"synthesis", "refine", "summary"}
        /\ log[c][k].backend \in {"failed", "slow"}

\* The error raised tells a configuration error (ValueError), a timeout
\* ("... timed out after ...") or an upstream error ("Error ...").
ErrorKinds(error) ==
    {kind \in {"configuration", "timeout", "upstream"} :
        \/ kind = "configuration" /\ error.type = "ValueError"
        \/ /\ kind = "timeout"
           /\ error.type = "RuntimeError"
           /\ Contains(error.msg, <<"t","i","m","e","d"," ","o","u","t">>)
        \/ /\ kind = "upstream"
           /\ error.type = "RuntimeError"
           /\ OccursAt(error.msg, <<"E","r","r","o","r">>, 1)}

\* C15: every call that has ended either returned a result holding every
\* field of its result type or raised an error of exactly one kind
\* (configuration, timeout, upstream); and no call returns a result when the
\* backend of its fatal stage (synthesis, refinement, summary) failed or
\* timed out.
C15_CompleteResultOrTypedError ==
    \A c \in Calls :
        /\ calls[c].pc = "returned" <=> calls[c].result.kind = "return"
        /\ calls[c].pc = "raised" <=> calls[c].result.kind = "raise"
        /\ calls[c].pc = "returned" =>
              DOMAIN calls[c].result.value = ResultFields(calls[c].op)
        /\ calls[c].pc = "raised" =>
              Cardinality(ErrorKinds(calls[c].result)) = 1
        /\ FatalStageFailed(c) => calls[c].pc # "returned"

---------------------------------------------------------------------------
(* The critique and synthesis stages of consult.                           *)

\* The critique call of call c to the i-th provider: the calls of a consult
\* are the fan-out calls, then the critique calls, then the synthesis call.
CritiqueCall(c, i) == log[c][NumProviders + i]

\* The critique stage of call c has returned.
CritiquesReturned(c) ==
    calls[c].op = "consult" /\ calls[c].pc \in {"synthesis", "returned", "raised"}

\* C16: the responses handed to each provider for critique are exactly the
\* fan-out responses of all other providers, its own left out and no other
\* missing; and the critique map has exactly one entry per provider.
C16_CritiqueOfAllOthers ==
    \A c \in Calls :
        calls[c].op = "consult" =>
            /\ \A i \in 1..NumProviders :
                  NumProviders + i <= Len(log[c]) =>
                      /\ CritiqueCall(c, i).provider = providers[i]
                      /\ CritiqueCall(c, i).prompt.template = "critique"
                      /\ DOMAIN CritiqueCall(c, i).prompt.a = Names \ {providers[i]}
                      /\ \A name \in Names \ {providers[i]} :
                            CritiqueCall(c, i).prompt.a[name]
                                = calls[c].responses[name]
            /\ CritiquesReturned(c) =>
                  /\ DOMAIN calls[c].critiques = Names
                  /\ Cardinality(DOMAIN calls[c].critiques) = NumProviders

\* both providers of a two-provider list were asked for their critique, the
\* first one of the second one's answer
C16_Witness ==
    \E c \in Calls :
        /\ CritiquesReturned(c)
        /\ NumProviders = 2
        /\ CritiqueCall(c, 1).prompt.a = [k \in {providers[2]} |-> TextX]
        /\ DOMAIN CritiqueCall(c, 2).prompt.a = {providers[1]}

\* C17: when the critique call of a provider times out or raises, that
\* provider's critique entry holds an error string ("Timeout after 60s",
\* "Error: " and the exception's text), the next call of the stage (the next
\* provider's critique, or the synthesis after the last one) is still
\* issued, and consult does not end with an error at this stage.
C17_CritiqueFailureInBand ==
    \A c \in Calls :
        calls[c].op = "consult" =>
            /\ \A i \in 1..NumProviders :
                  NumProviders + i <= Len(log[c])
                  /\ CritiqueCall(c, i).out # Pending =>
                      LET out == CritiqueCall(c, i).out
                          entry == calls[c].critiques[providers[i]]
                      IN  /\ providers[i] \in DOMAIN calls[c].critiques
                          /\ out.k = "ret" => entry = out.v
                          /\ out.k = "timeout" =>
                                entry = <<"T","i","m","e","o","u","t"," ","a","f","t",
                                          "e","r"," ","6","0","s">>
                          /\ out.k = "raise" => entry = S_ErrorColon \o out.v
                          /\ Len(log[c]) >= NumProviders + i + 1
            /\ calls[c].pc = "raised" => Len(log[c]) = 2 * NumProviders + 1

\* the first provider's critique call timed out, the second one's raised,
\* and the synthesis call was issued all the same
C17_Witness ==
    \E c \in Calls :
        /\ CritiquesReturned(c)
        /\ NumProviders = 2
        /\ CritiqueCall(c, 1).out.k = "timeout"
        /\ CritiqueCall(c, 2).out.k = "raise"
        /\ Last(log[c]).prompt.template = "synthesis"

\* The synthesis calls call c has issued.
SynthesisCalls(c) ==
    {k \in 1..Len(log[c]) : log[c][k].prompt.template = "synthesis"}

\* C18: a consult that reaches synthesis issues exactly one synthesis call,
\* to the first provider of the list, and its prompt holds the complete
\* response set and the complete critique set, one entry per provider in
\* each; before that stage no synthesis call is issued.
C18_OneSynthesisCall ==
    \A c \in Calls :
        calls[c].op = "consult" =>
            /\ ~CritiquesReturned(c) => SynthesisCalls(c) = {}
            /\ CritiquesReturned(c) =>
                  /\ SynthesisCalls(c) = {2 * NumProviders + 1}
                  /\ Len(log[c]) = 2 * NumProviders + 1
                  /\ Last(log[c]).provider = providers[1]
                  /\ Last(log[c]).prompt.a = calls[c].responses
                  /\ Last(log[c]).prompt.b = calls[c].critiques
                  /\ DOMAIN Last(log[c]).prompt.a = Names
                  /\ DOMAIN Last(log[c]).prompt.b = Names

\* a consult on two providers returned; its synthesis call went to the first
\* provider with the second provider's failed response and its critique
C18_Witness ==
    \E c \in Calls :
        /\ calls[c].op = "consult"
        /\ calls[c].pc = "returned"
        /\ NumProviders = 2
        /\ Last(log[c]).provider = providers[1]
        /\ log[c][2].out.k = "timeout"
        /\ Last(log[c]).prompt.a[providers[2]] = calls[c].responses[providers[2]]
        /\ Last(log[c]).prompt.b[providers[2]] = TextX

---------------------------------------------------------------------------
(* Timeouts.                                                               *)

\* C19: in query_all the timeout applied to a provider's call depends on
\* the provider's class: OLLAMA_TIMEOUT for the local provider Ollama,
\* API_TIMEOUT for a remote one.
C19_QueryAllTimeoutByClass ==
    \A c \in Calls :
        calls[c].op = "consult" =>
            \A i \in 1..NumProviders :
                log[c][i].timeout = IF providers[i] = "Ollama"
                                    THEN OLLAMA_TIMEOUT ELSE API_TIMEOUT

\* C20: in sequential_refine the timeout applied to each baseline call and
\* to the refine call is OLLAMA_TIMEOUT when the provider called is Ollama
\* and API_TIMEOUT for every other provider.
C20_RefineTimeoutByClass ==
    \A c \in Calls :
        calls[c].op = "sequential_refine" =>
            \A k \in 1..Len(log[c]) :
                /\ log[c][k].provider = "Ollama" => log[c][k].timeout = 120
                /\ log[c][k].provider # "Ollama" => log[c][k].timeout = 60
                /\ log[c][k].out.k = "timeout" => log[c][k].backend = "slow"

\* Ollama refined after a remote provider: its baseline call and its refine
\* call ran under 120 s, the remote provider's baseline call under 60 s
C20_Witness ==
    \E c \in Calls :
        /\ RefineAnswered(c)
        /\ providers[2] = "Ollama"
        /\ log[c][1].timeout = 60
        /\ log[c][2].timeout = 120
        /\ log[c][3].timeout = 120
        /\ log[c][3].out.k = "timeout"

\* The similarities of the unordered pairs of a response set.
PairSimilarities(responses) ==
    {Similarity(responses[ij[1]].text, responses[ij[2]].text) :
        ij \in {p \in (1..Len(responses)) \X (1..Len(responses)) : p[1] < p[2]}}

Scored == scorer.stage \in {"scored", "selected"}

\* C21: for every response set the scorer is given, each pairwise similarity
\* lies in [0,1] and so does each confidence; when some pairwise similarity is
\* greater than 0 the largest confidence is exactly 1, and otherwise every
\* confidence is 0.
C21_ConfidenceNormalized ==
    Scored =>
        LET sims == PairSimilarities(scorer.responses)
            conf == scorer.scores
        IN  /\ \A sim \in sims : sim.d > 0 /\ sim.n <= sim.d
            /\ \A i \in 1..Len(conf) : conf[i].d > 0 /\ conf[i].n <= conf[i].d
            /\ IF \E sim \in sims : sim.n > 0
               THEN \E i \in 1..Len(conf) : conf[i].n = conf[i].d
               ELSE \A i \in 1..Len(conf) : conf[i].n = 0

\* C21 happens: three responses were scored, two of them share a word without
\* being equal as word sets, and a provider got a confidence strictly between
\* 0 and 1.
C21_Witness ==
    /\ Scored
    /\ Len(scorer.responses) = 3
    /\ \E sim \in PairSimilarities(scorer.responses) : 0 < sim.n /\ sim.n < sim.d
    /\ \E i \in 1..3 : 0 < scorer.scores[i].n /\ scorer.scores[i].n < scorer.scores[i].d

\* Every provider answered with the same text, byte for byte.
IdenticalTexts ==
    \A i \in 1..Len(scorer.responses) :
        scorer.responses[i].text = scorer.responses[1].text

AllConfidencesOne ==
    \A i \in 1..Len(scorer.scores) : scorer.scores[i].n = scorer.scores[i].d

\* C22 as stated: when all providers return byte-identical text, every
\* confidence is 1 after normalization and the provider selected is the first
\* in registration order.
C22_IdenticalTextsAllOne ==
    scorer.stage = "selected" /\ IdenticalTexts =>
        /\ AllConfidencesOne
        /\ scorer.selected.provider = providers[1]

\* C22 as amended: when all providers return byte-identical text the provider
\* selected is the first in registration order, ties going to the first one
\* met; every pairwise similarity and every confidence is 1 when there are at
\* least two providers and the text holds a word, and every confidence is 0
\* when there is one provider or the text holds no word.
C22_IdenticalTextsFirstWins ==
    scorer.stage = "selected" /\ IdenticalTexts =>
        /\ scorer.selected.provider = providers[1]
        /\ scorer.selected.answer = scorer.responses[1].text
        /\ IF Len(providers) >= 2 /\ WordSet(scorer.responses[1].text) # {}
           THEN /\ AllConfidencesOne
                /\ \A sim \in PairSimilarities(scorer.responses) : sim.n = sim.d
           ELSE \A i \in 1..Len(scorer.scores) : scorer.scores[i].n = 0

\* C22 happens: three providers returned the same two-word text and the best
\* response was selected.
C22_Witness ==
    /\ scorer.stage = "selected"
    /\ Len(scorer.responses) = 3
    /\ IdenticalTexts
    /\ scorer.responses[1].text = <<"a", " ", "b">>
    /\ AllConfidencesOne

\* The outcome of the query with the cache disabled: the provider's own call
\* of its backend.
Uncached(q) ==
    ProviderQuery(q.provider, Answer(queries.answers, q.provider, q.prompt))

\* The calls of cache.set made for the key of a pair.
SetsUnderKey(prompt, name) ==
    {w \in queries.sets : w.key = GetKey(prompt, name)}

\* C23: against backends that answer each prompt the same way every time,
\* every query returns (or raises) with the cache in place exactly what it
\* does with the cache disabled; and what a lookup finds for a (prompt,
\* provider) pair was stored by a set for that very pair, never for another.
C23_CacheTransparent ==
    queries.stage = "open" =>
        /\ queries.last.provider # "none" =>
              /\ queries.last.out = Uncached(queries.last)
              /\ queries.last.hit =>
                    \E w \in queries.sets :
                        /\ w.prompt = queries.last.prompt
                        /\ w.provider = queries.last.provider
                        /\ w.response = queries.last.out.v
        /\ \A i \in 1..Len(providers), prompt \in QueryPrompts :
              LET found == CacheGet(cache, prompt, providers[i])
              IN  found.some =>
                    /\ SetsUnderKey(prompt, providers[i]) # {}
                    /\ \A w \in SetsUnderKey(prompt, providers[i]) :
                          w.prompt = prompt /\ w.provider = providers[i]

\* C23 happens: the cache holds the answers of two providers to one prompt,
\* and the last query was answered from the cache.
C23_Witness ==
    /\ queries.stage = "open"
    /\ queries.last.provider = "Custom"
    /\ queries.last.hit
    /\ CacheGet(cache, queries.last.prompt, "Ollama").some

\* C24: whatever calls of set, get and clear were made on a SimpleCache, it
\* holds at most max_size entries; right after set(p, n, r) the entry of
\* (p, n) is r, and a get(p, n) made right after that set returned r.
C24_BoundedAndReadBack ==
    simple_cache.stage = "open" =>
        /\ Len(simple_cache.cache) <= simple_cache.max_size
        /\ simple_cache.last.op = "set" =>
              CacheGet(simple_cache.cache, simple_cache.last.prompt,
                       simple_cache.last.provider)
                  = Some(simple_cache.last.response)
        /\ /\ simple_cache.last.op = "get"
           /\ simple_cache.before.op = "set"
           /\ simple_cache.before.prompt = simple_cache.last.prompt
           /\ simple_cache.before.provider = simple_cache.last.provider
           => simple_cache.last.ret = Some(simple_cache.before.response)

\* C24 happens: a set that found a cache of capacity two full was followed by
\* a get of the pair it set, which returned the text set.
C24_Witness ==
    /\ simple_cache.stage = "open"
    /\ simple_cache.max_size = 2
    /\ Len(simple_cache.cache) = 2
    /\ simple_cache.last.op = "get"
    /\ simple_cache.before.op = "set"
    /\ simple_cache.before.found = 2
    /\ simple_cache.before.prompt = simple_cache.last.prompt
    /\ simple_cache.before.provider = simple_cache.last.provider
    /\ simple_cache.last.ret = Some(TextX)

\* The last k of the messages added, in the order they were added.
MostRecent(k) ==
    SubSeq(memory.added,
           IF Len(memory.added) > k THEN Len(memory.added) - k + 1 ELSE 1,
           Len(memory.added))

\* C25: after any sequence of add_message calls on a ConversationMemory of
\* limit max_history, the history holds at most max_history messages, and
\* they are the most recently added ones in the order they were added.
C25_HistoryBounded ==
    memory.stage = "open" =>
        /\ Len(memory.history) <= memory.max_history
        /\ memory.history = MostRecent(memory.max_history)

\* Call c has ended: it returned a result or raised an error.
Ended(c) == calls[c].pc \in {"returned", "raised"}

\* Every provider of the fan-out of call c has its slot: its answer, or the
\* error marker of its failure or timeout.
FanOutSettled(c) ==
    calls[c].op = "consult" =>
        \A i \in 1..NumProviders :
            /\ log[c][i].out # Pending
            /\ providers[i] \in DOMAIN calls[c].responses
            /\ calls[c].responses[providers[i]] =
                  CASE log[c][i].out.k = "ret" -> log[c][i].out.v
                    [] log[c][i].out.k = "raise" -> S_ErrorColon \o log[c][i].out.v
                    [] log[c][i].out.k = "timeout" ->
                          S_ErrorColon \o S_TimeoutAfter \o IntToStr(API_TIMEOUT) \o S_s

\* C26: every call of consult, sequential_refine or summarize that was started
\* eventually ends, by returning a result or by raising an error, given that
\* each provider call in flight eventually returns, raises or is cut off by
\* its timeout; and by then every provider of the fan-out of a consult has its
\* slot, an answer or an error marker.
C26_EveryCallEnds ==
    \A c \in Calls :
        (calls[c].pc # "idle") ~> (Ended(c) /\ FanOutSettled(c))

\* C26 happens: a consult has returned although a provider of its fan-out was
\* cut off by the timeout and a critique call failed.
C26_Witness ==
    \E c \in Calls :
        /\ calls[c].op = "consult"
        /\ calls[c].pc = "returned"
        /\ NumProviders = 2
        /\ log[c][1].out.k = "timeout"
        /\ log[c][4].out.k # "ret"

\* C27: while query_all waits for its gather, the call of every provider has
\* been started and each one still in flight can finish whatever the others
\* are doing; and query_all has not returned while a call is in flight.
C27_FanOutConcurrent ==
    \A c \in Calls :
        /\ calls[c].op = "consult" /\ calls[c].pc = "query_all" =>
              /\ Len(log[c]) = NumProviders
              /\ \A i \in 1..NumProviders :
                    /\ log[c][i].provider = providers[i]
                    /\ log[c][i].out = Pending => ENABLED QueryAllDone(c, i)
        /\ QueryAllReturned(c) =>
              \A i \in 1..NumProviders : log[c][i].out # Pending

\* C27 happens: the call of the second provider has finished while that of
\* the first is still in flight, and query_all has not returned.
C27_Witness ==
    \E c \in Calls :
        /\ calls[c].op = "consult"
        /\ calls[c].pc = "query_all"
        /\ NumProviders = 2
        /\ log[c][1].out = Pending
        /\ log[c][2].out # Pending

\* The calls call c has issued so far that were made with the template.
IssuedWith(c, template) ==
    {k \in 1..Len(log[c]) : log[c][k].prompt.template = template}

\* C28: within one consult the provider calls are issued stage after stage. A
\* critique call is issued only when every fan-out call has finished; the
\* critique calls go to the providers in registration order, each issued only
\* when the one before it has finished; the synthesis call is issued only
\* when the last critique call has finished, and nothing is issued after it.
C28_StagesInOrder ==
    \A c \in Calls :
        calls[c].op = "consult" =>
            LET n == NumProviders
            IN  /\ IssuedWith(c, "query_all") = 1..Min({n, Len(log[c])})
                /\ IssuedWith(c, "critique") = (n + 1)..Min({2 * n, Len(log[c])})
                /\ IssuedWith(c, "synthesis") = (2 * n + 1)..Len(log[c])
                /\ Len(log[c]) <= 2 * n + 1
                /\ \A k \in IssuedWith(c, "critique") :
                      /\ log[c][k].provider = providers[k - n]
                      /\ \A j \in 1..(k - 1) : log[c][j].out # Pending
                /\ \A k \in IssuedWith(c, "synthesis") :
                      \A j \in 1..(k - 1) : log[c][j].out # Pending

\* C28 happens: a consult over two providers has issued its synthesis call,
\* after two fan-out calls and two critique calls.
C28_Witness ==
    \E c \in Calls :
        /\ calls[c].op = "consult"
        /\ calls[c].pc = "synthesis"
        /\ NumProviders = 2
        /\ Len(log[c]) = 5
        /\ log[c][5].out = Pending

\* The calls call c has issued to the provider at position i of the list.
IssuedTo(c, i) == {k \in 1..Len(log[c]) : log[c][k].provider = providers[i]}

\* C29: in sequential_refine the refine call is issued only when both baseline
\* calls have returned without raising or timing out; it goes to the second
\* provider and its prompt holds the question and both baselines, each under
\* its provider's name; a run that returns has issued exactly three provider
\* calls, one to the first provider and two to the second.
C29_RefineAfterBaselines ==
    \A c \in Calls :
        calls[c].op = "sequential_refine" =>
            /\ Len(log[c]) <= 3
            /\ calls[c].pc \in {"refine", "returned"} => Len(log[c]) = 3
            /\ Len(log[c]) = 3 =>
                  /\ log[c][1].out.k = "ret" /\ log[c][2].out.k = "ret"
                  /\ log[c][1].prompt.template = "baseline"
                  /\ log[c][2].prompt.template = "baseline"
                  /\ log[c][3].provider = providers[2]
                  /\ log[c][3].prompt.template = "refine"
                  /\ log[c][3].prompt.question = calls[c].prompt
                  /\ log[c][3].prompt.a = <<providers[1], log[c][1].out.v>>
                  /\ log[c][3].prompt.b = <<providers[2], log[c][2].out.v>>
            /\ calls[c].pc = "returned" =>
                  /\ IssuedTo(c, 1) = {1}
                  /\ IssuedTo(c, 2) = {2, 3}

\* C29 happens: a sequential_refine has returned after its three calls, the
\* refine call having been answered.
C29_Witness ==
    \E c \in Calls :
        /\ calls[c].op = "sequential_refine"
        /\ calls[c].pc = "returned"
        /\ Len(log[c]) = 3
        /\ log[c][3].out.k = "ret"

\* The fan-out calls call c has issued to the provider at position i.
FanOutCalls(c, i) == IssuedWith(c, "query_all") \cap IssuedTo(c, i)

\* C30: one invocation of query_all issues exactly one call to each provider,
\* also to a provider whose call raised or timed out; a call of the fan-out
\* that has its outcome is never made again.
C30_OneCallPerProvider ==
    /\ [](\A c \in Calls :
            calls[c].op = "consult" =>
                \A i \in 1..NumProviders : Cardinality(FanOutCalls(c, i)) = 1)
    /\ [][\A c \in Calls :
            calls[c].op = "consult" =>
                \A i \in 1..NumProviders :
                    log[c][i].out # Pending => log'[c][i] = log[c][i]]_vars

\* C30 happens: consult went on to its critiques after a fan-out in which the
\* call of the first provider raised and that of the second timed out.
C30_Witness ==
    \E c \in Calls :
        /\ QueryAllReturned(c)
        /\ NumProviders = 2
        /\ log[c][1].out.k = "raise"
        /\ log[c][2].out.k = "timeout"
        /\ Cardinality(FanOutCalls(c, 1)) = 1
        /\ Cardinality(FanOutCalls(c, 2)) = 1


\* The (key, value) pairs a dict holds, and its keys.
Stored(c) == {c[i] : i \in 1..Len(c)}
StoredKeys(c) == {c[i].key : i \in 1..Len(c)}

\* The last call was a set that found the dict full.
SetOnFull ==
    /\ simple_cache.stage = "open"
    /\ simple_cache.last.op = "set"
    /\ Len(simple_cache.was) = simple_cache.max_size

\* The key the last call was made with.
LastKey == GetKey(simple_cache.last.prompt, simple_cache.last.provider)

\* C31: when set finds a SimpleCache full and its key is not stored, exactly
\* one entry is removed, the one at the head of the dict, whose key was
\* inserted earliest; every other entry is kept as it was, in its order, and
\* the new entry follows them.
C31_FifoEviction ==
    (SetOnFull /\ LastKey \notin StoredKeys(simple_cache.was)) =>
        /\ Cardinality(Stored(simple_cache.was) \ Stored(simple_cache.cache)) = 1
        /\ Head(simple_cache.was) \notin Stored(simple_cache.cache)
        /\ simple_cache.cache =
              Append(Tail(simple_cache.was),
                     [key |-> LastKey, value |-> simple_cache.last.response])

\* C31 happens: a dict of capacity two held two entries, a set with a third
\* key removed the older of them and kept the other.
C31_Witness ==
    /\ SetOnFull
    /\ simple_cache.max_size = 2
    /\ LastKey \notin StoredKeys(simple_cache.was)
    /\ simple_cache.was[2] \in Stored(simple_cache.cache)
    /\ simple_cache.was[1] \notin Stored(simple_cache.cache)


\* C38: when set finds a SimpleCache full and its key is stored, every entry
\* stored under another key is still stored, with its value.
C38_OverwriteKeepsOthers ==
    (SetOnFull /\ LastKey \in StoredKeys(simple_cache.was)) =>
        \A e \in Stored(simple_cache.was) :
            e.key # LastKey => e \in Stored(simple_cache.cache)


\* The estimated tokens of a list of messages: the sum of len(content) // 4.
RECURSIVE EstimatedTokens(_)
EstimatedTokens(messages) ==
    IF messages = <<>> THEN 0
    ELSE Len(Head(messages).content) \div 4 + EstimatedTokens(Tail(messages))

\* The role and content of each message of a list, in its order.
AsDicts(messages) ==
    [i \in 1..Len(messages) |->
        [role |-> messages[i].role, content |-> messages[i].content]]

\* C32: what get_context(max_tokens) returned is the role and content of the
\* last k messages of the history, for some k, in the order of the history,
\* and their estimated tokens add up to max_tokens at most.
C32_ContextIsRecentRun ==
    (memory.stage = "open" /\ memory.last.op = "get_context") =>
        /\ \E k \in 0..Len(memory.history) :
              memory.last.ret =
                  AsDicts(SubSeq(memory.history, Len(memory.history) - k + 1,
                                 Len(memory.history)))
        /\ EstimatedTokens(memory.last.ret) <= memory.last.max_tokens

\* C32 happens: get_context returned the two most recent messages, of one
\* estimated token each, and left out an older one that would have made three
\* with a budget of two.
C32_Witness ==
    /\ memory.stage = "open"
    /\ memory.last.op = "get_context"
    /\ memory.last.max_tokens = 2
    /\ Len(memory.history) = 3
    /\ Len(memory.last.ret) = 2
    /\ EstimatedTokens(memory.last.ret) = 2
    /\ EstimatedTokens(memory.history) = 3


\* All of text s that follows the first occurrence of sub in it.
AfterFirst(s, sub) == SubSeq(s, Find(s, sub) + Len(sub), Len(s))

\* C33: when the refiner's answer holds both markers, sequential_refine
\* returns and its final_answer is all of the answer that follows the first
\* 'OPTIMIZED RESPONSE:', without the whitespace around it, however many
\* times that marker occurs.
C33_NothingAfterMarkerLost ==
    \A c \in Calls :
        (RefineAnswered(c) /\ log[c][3].out.k = "ret" /\ ~LacksAMarker(c)) =>
            /\ calls[c].pc = "returned"
            /\ RefineResult(c).final_answer
                  = Strip(AfterFirst(log[c][3].out.v, OPTIMIZED_MARKER))


\* The text call c returned as its answer: the final_answer of a consult or
\* a sequential_refine, the summary of a summarize.
AnswerText(c) ==
    IF calls[c].op = "summarize" THEN calls[c].result.value.summary
    ELSE calls[c].result.value.final_answer

\* C34: when the backend behind the synthesis, refine or summary call of
\* call c failed, the call raises an error: it does not return, and so never
\* hands out the provider's error text as its answer.
C34_DepthFailureRaises ==
    \A c \in Calls : \A k \in 1..Len(log[c]) :
        (/\ log[c][k].prompt.template \in {"synthesis", "refine", "summary"}
         /\ log[c][k].backend = "failed")
        =>  /\ calls[c].pc = "raised"
            /\ ~(calls[c].pc = "returned" /\ AnswerText(c) = log[c][k].out.v)


\* The backend calls made for the provider and prompt of the last query,
\* that query's own left out when it was not the first for the pair.
ContactedBefore ==
    {w \in queries.contacted :
        /\ w.provider = queries.last.provider
        /\ w.prompt = queries.last.prompt
        /\ queries.last.again}

\* C35: a query of a provider with a prompt for which that provider's
\* backend call failed before is not answered from the cache: the backend is
\* contacted again.
C35_FailureNotServedFromCache ==
    (queries.stage = "open" /\ queries.last.provider # "none") =>
        ((\E w \in ContactedBefore : ~w.b.ok) => ~queries.last.hit)

\* C36: a query of Groq, Mistral or Ollama with a prompt that provider's
\* backend has answered before with a text is answered from the cache, with
\* that text and without another backend call.
C36_EveryProviderCached ==
    (queries.stage = "open"
     /\ queries.last.provider \in {"Groq", "Mistral", "Ollama"}) =>
        \A w \in ContactedBefore :
            (w.b.ok /\ w.b.text # <<>>) =>
                queries.last.hit /\ queries.last.out = Ret(w.b.text)


\* The names of list s that are in set S, in the order of s.
RECURSIVE Restrict(_, _)
Restrict(s, S) ==
    IF s = <<>> THEN <<>>
    ELSE (IF Head(s) \in S THEN <<Head(s)>> ELSE <<>>) \o Restrict(Tail(s), S)

\* The providers whose initialisation has what it needs in environment e:
\* the API key of Groq and of Mistral, the Ollama server answering.
Initialisable(e) ==
    (IF e.GROQ_API_KEY THEN {"Groq"} ELSE {})
    \cup (IF UseOllama(e) /\ e.ollama_up THEN {"Ollama"} ELSE {})
    \cup (IF ~UseOllama(e) /\ e.MISTRAL_API_KEY THEN {"Mistral"} ELSE {})

\* C37: once LLMCouncil() has run, the provider list is made of the
\* providers that could be initialised, in the order Groq, Ollama with
\* USE_OLLAMA on and Groq, Mistral with it off; Ollama and Mistral are never
\* both listed, a provider that cannot be initialised is left out without
\* keeping another one out, and with the keys of Groq and Mistral set and
\* USE_OLLAMA off the list is Groq, Mistral.
C37_RegistrationOrder ==
    council.state \in {"constructed", "failed"} =>
        /\ providers =
              Restrict(IF UseOllama(council.env) THEN <<"Groq", "Ollama">>
                       ELSE <<"Groq", "Mistral">>,
                       Initialisable(council.env))
        /\ ~({"Ollama", "Mistral"} \subseteq {providers[i] : i \in 1..Len(providers)})
        /\ (/\ council.env.GROQ_API_KEY
            /\ council.env.MISTRAL_API_KEY
            /\ ~UseOllama(council.env))
           => council.state = "constructed" /\ providers = <<"Groq", "Mistral">>


\* C39: when the refine call of sequential_refine was cut off by its
\* timeout, the error raised names, right after 'timed out after ', the
\* number of seconds the call ran under.
C39_RefineTimeoutMessage ==
    \A c \in Calls :
        (RefineAnswered(c) /\ log[c][3].out.k = "timeout") =>
            /\ calls[c].pc = "raised"
            /\ Contains(calls[c].result.msg, S_TimedOutAfter)
            /\ OccursAt(AfterFirst(calls[c].result.msg, S_TimedOutAfter),
                        IntToStr(log[c][3].timeout) \o S_Seconds, 1)

===========================================================================
